---- MODULE Spec2Model ----
(***************************************************************************)
(* Model of the semantic clustering engine of daily-ai (src/src/classify). *)
(*                                                                         *)
(* Numbers.  The code computes in f64.  The model computes exactly: the    *)
(* embedding matrices it draws hold small integers in a single feature     *)
(* column, so every Euclidean distance |a - b| is an integer and Sqrt is    *)
(* exact.  f64::INFINITY is the number F64Inf, larger than every finite     *)
(* value the model produces.  An Array2 is the sequence of its rows.        *)
(*                                                                         *)
(* Calls.  Every function of the code is an operator that returns a        *)
(* result record: Ok(v) for a returned value (for a Result: Ok(v)),        *)
(* Err(e) for a returned Err(e), Panic(m) for a panic.  Every action is    *)
(* one call of one function from the idle state; it records the arguments  *)
(* and the result.  The k-means calls (kmeans_single_lloyd, Knn::fit) are  *)
(* followed step by step: seeding, each Lloyd iteration, each return.      *)
(* There the f64 values are exact fractions <<numerator, denominator>>.    *)
(***************************************************************************)
EXTENDS Integers, Sequences, FiniteSets, TLC

VARIABLES
    op,      \* the function called ("idle" before the call)
    x,       \* its Array2 argument (sequence of rows)
    k,       \* its k argument (Knn.k, k, n_components)
    kd,      \* the slice handed to elbow_kneedle
    eps,     \* the radius selected / handed to cluster_embeddings
    labels,  \* the density-clustering labels (Vec<i32>)
    map,     \* the HashMap built by the grouping code
    ret,     \* the call's result record
    centered, \* pca_reduce: the centred matrix handed to the SVD
    knn,     \* the Knn struct: its settings and what fit stored
    fit,     \* the locals of Knn::fit
    lloyd,   \* the arguments and locals of kmeans_single_lloyd
    cls,     \* the locals of Classifier::classify and build_cluster_output
    cleaner, \* the ResponseCleaner and the locals of its clean
    agent    \* a tool-calling loop: its input_items and the response in hand

vars == <<op, x, k, kd, eps, labels, map, ret, centered, knn, fit, lloyd, cls, cleaner, agent>>

\* what the calls of classify/linalg.rs and of HdbscanClusterer leave alone
notLinalgVars == <<centered, knn, fit, lloyd, cls, cleaner, agent>>
\* what the calls of classify/convert.rs and classify/pca.rs leave alone
notPrepVars == <<kd, eps, labels, map, knn, fit, lloyd, cls, cleaner, agent>>
\* what k-means leaves alone
notKMeansVars == <<kd, eps, labels, map, centered, cls, cleaner, agent>>

----------------------------------------------------------------------------
(* Bounds of the model *)

\* rows of a drawn matrix: 0..MaxN
MaxN == 3
\* entries of a drawn matrix: 0..MaxVal
MaxVal == 3
\* k arguments drawn: 0..MaxK
MaxK == 3
\* cluster ids the density clusterer may answer: -1..MaxLabel
MaxLabel == 1
\* feature columns of a matrix drawn for convert.rs and pca.rs: 0..MaxCols
MaxCols == 2

(* Program constants *)

\* knn.set_k(25) in HdbscanClusterer::cluster
ClusterK == 25
\* f64::INFINITY, the self-distance written before sorting
F64Inf == 1000000

----------------------------------------------------------------------------
(* Results *)

Ok(v) == [kind |-> "ok", val |-> v]
Err(e) == [kind |-> "err", val |-> e]
Panic(m) == [kind |-> "panic", val |-> m]
NoRet == [kind |-> "none", val |-> <<>>]

None == [some |-> FALSE]
Some(v) == [some |-> TRUE, val |-> v]

----------------------------------------------------------------------------
(* Arithmetic and sequences *)

Abs(a) == IF a < 0 THEN -a ELSE a

\* f64::sqrt on the perfect squares the model produces
Sqrt(v) == CHOOSE r \in 0..v : r * r = v

RECURSIVE SumSeq(_)
SumSeq(s) == IF Len(s) = 0 THEN 0 ELSE s[1] + SumSeq(Tail(s))

\* a . b for two rows of the same length
DotRow(a, b) == SumSeq([j \in 1..Len(a) |-> a[j] * b[j]])

NRows(m) == Len(m)
NCols(m) == IF Len(m) = 0 THEN 0 ELSE Len(m[1])

RECURSIVE InsertAsc(_, _)
InsertAsc(v, s) ==
    IF Len(s) = 0 THEN <<v>>
    ELSE IF v < s[1] THEN <<v>> \o s
    ELSE <<s[1]>> \o InsertAsc(v, Tail(s))

\* slice::sort_by(partial_cmp): ascending and stable (equal values are
\* indistinguishable, so stability leaves no trace)
RECURSIVE SortAsc(_)
SortAsc(s) ==
    IF Len(s) = 0 THEN <<>>
    ELSE InsertAsc(s[Len(s)], SortAsc(SubSeq(s, 1, Len(s) - 1)))

IsAscending(s) == \A i \in 1..(Len(s) - 1) : s[i] <= s[i + 1]

----------------------------------------------------------------------------
(* classify/linalg.rs and classify/knn: distances *)

\* row_norms(x, squared)
RowNorms(m, squared) ==
    [i \in 1..Len(m) |->
        LET sum == DotRow(m[i], m[i])
        IN  IF squared THEN sum ELSE Sqrt(sum)]

\* pairwise_distances(x): sqrt(max(|x_i|^2 + |x_j|^2 - 2 x_i.x_j, 0))
PairwiseDistances(xx) ==
    LET n == NRows(xx)
        norms2 == RowNorms(xx, TRUE)
    IN  [i \in 1..n |-> [j \in 1..n |->
            LET val == norms2[i] + norms2[j] - 2 * DotRow(xx[i], xx[j])
            IN  Sqrt(IF val > 0 THEN val ELSE 0)]]

\* utils::euclidean_distances(a, b, a_norm_squared, b_norm_squared, squared)
EuclideanDistances(a, b, a_norm_squared, b_norm_squared, squared) ==
    LET aa == IF a_norm_squared.some THEN a_norm_squared.val ELSE RowNorms(a, TRUE)
        bb == IF b_norm_squared.some THEN b_norm_squared.val ELSE RowNorms(b, TRUE)
    IN  [i \in 1..NRows(a) |-> [j \in 1..NRows(b) |->
            LET d == (-2) * DotRow(a[i], b[j]) + aa[i] + bb[j]
                c == IF d > 0 THEN d ELSE 0
            IN  IF squared THEN c ELSE Sqrt(c)]]

\* the loop without the self-distance set to infinity
KSmallestPerRow_SelfIncluded(dists, kk) ==
    [i \in 1..NRows(dists) |-> SubSeq(SortAsc(dists[i]), 1, kk)]

\* the loop shared by both k-distance functions: row i with the self-distance
\* set to infinity, sorted ascending, first k values kept
KSmallestPerRow(dists, kk) ==
    [i \in 1..NRows(dists) |->
        LET row == [j \in 1..Len(dists[i]) |-> IF j = i THEN F64Inf ELSE dists[i][j]]
        IN  SubSeq(SortAsc(row), 1, kk)]

\* the assertion written with <= for <
KLessThanSamples_OffByOne(kk, n) == kk <= n

\* assert!(k < n, "k must be < number of samples") of linalg::knn_k_distances
\* and of Knn::distances
KLessThanSamples(kk, n) == kk < n

\* linalg::knn_k_distances(x_reduced, k) -> Array2
KnnKDistances(x_reduced, kk) ==
    IF ~KLessThanSamples(kk, NRows(x_reduced))
    THEN Panic("k must be < number of samples")
    ELSE Ok(KSmallestPerRow(PairwiseDistances(x_reduced), kk))

\* Knn::distances(&self, x) -> AppResult<Array2>, self.k = kk
KnnDistances(xx, kk) ==
    IF ~KLessThanSamples(kk, NRows(xx))
    THEN Panic("k must be < number of samples")
    ELSE Ok(KSmallestPerRow(EuclideanDistances(xx, xx, None, None, FALSE), kk))

----------------------------------------------------------------------------
(* classify/linalg.rs: the elbow selector *)

\* the loop with the chord's two components swapped in the cross product
RECURSIVE ElbowLoop_SwappedChord(_, _, _, _)
ElbowLoop_SwappedChord(kdv, i, max_dist, max_i) ==
    IF i > Len(kdv) THEN max_i
    ELSE LET n == Len(kdv)
             y1 == kdv[1]
             ab_x == n - 1
             ab_y == kdv[n] - y1
             nan == (ab_x * ab_x + ab_y * ab_y = 0)
             cross == (i - 1) * ab_x - (kdv[i] - y1) * ab_y
             dist == Abs(cross)
         IN  IF ~nan /\ dist > max_dist
             THEN ElbowLoop_SwappedChord(kdv, i + 1, dist, i)
             ELSE ElbowLoop_SwappedChord(kdv, i + 1, max_dist, max_i)

\* the for loop of elbow_kneedle from index i on.  dist = |cross| / ab_norm is
\* compared through |cross| (ab_norm is the same positive number in every
\* comparison of one call); with ab_norm = 0 (a single value) dist is
\* 0/0 = NaN and "dist > max_dist" is false.
RECURSIVE ElbowLoop(_, _, _, _)
ElbowLoop(kdv, i, max_dist, max_i) ==
    IF i > Len(kdv) THEN max_i
    ELSE LET n == Len(kdv)
             y1 == kdv[1]
             ab_x == n - 1
             ab_y == kdv[n] - y1
             nan == (ab_x * ab_x + ab_y * ab_y = 0)
             cross == (i - 1) * ab_y - (kdv[i] - y1) * ab_x
             dist == Abs(cross)
         IN  IF ~nan /\ dist > max_dist
             THEN ElbowLoop(kdv, i + 1, dist, i)
             ELSE ElbowLoop(kdv, i + 1, max_dist, max_i)

\* the selector returning the value after the elbow index
ElbowKneedle_AfterElbow(kdv) ==
    IF Len(kdv) = 0 THEN Panic("index out of bounds")
    ELSE LET max_i == ElbowLoop(kdv, 1, -F64Inf, 1)
         IN  Ok(kdv[IF max_i < Len(kdv) THEN max_i + 1 ELSE max_i])

\* elbow_kneedle(kd) -> f64; kd[0] panics on an empty slice.
\* max_dist starts at -infinity, max_i at index 0 (here 1).
ElbowKneedle(kdv) ==
    IF Len(kdv) = 0 THEN Panic("index out of bounds")
    ELSE Ok(kdv[ElbowLoop(kdv, 1, -F64Inf, 1)])

\* kth_distances_for_elbow(kdists): last column, sorted ascending.
\* ncols().saturating_sub(1) is column 0 of a matrix without columns: panic.
KthDistancesForElbow(kdists) ==
    LET ncols == NCols(kdists)
        last_col == IF ncols = 0 THEN 0 ELSE ncols - 1
    IN  IF last_col >= ncols THEN Panic("index out of bounds")
        ELSE Ok(SortAsc([i \in 1..NRows(kdists) |-> kdists[i][last_col + 1]]))

\* select_eps_from_k_dists(x_reduced, k) -> f64.  The record also carries the
\* slice that reached elbow_kneedle.
SelectEpsFromKDists(x_reduced, kk) ==
    LET kdists == KnnKDistances(x_reduced, kk)
    IN  IF kdists.kind # "ok" THEN [r |-> kdists, kd |-> <<>>]
        ELSE LET kth == KthDistancesForElbow(kdists.val)
             IN  IF kth.kind # "ok" THEN [r |-> kth, kd |-> <<>>]
                 ELSE [r |-> ElbowKneedle(kth.val), kd |-> kth.val]

----------------------------------------------------------------------------
(* Grouping by cluster label *)

\* `label as usize` for an i32: a negative label is sign-extended and read as
\* 2^64 + label.  A usize is the record [pow64, rest] standing for
\* pow64 * 2^64 + rest.
AsUsize(label) ==
    IF label >= 0 THEN [pow64 |-> 0, rest |-> label]
    ELSE [pow64 |-> 1, rest |-> label]

\* a push that replaces the group instead of appending to it
EntryPush_Replaces(m, key, v) ==
    [q \in (DOMAIN m) \cup {key} |-> IF q = key THEN <<v>> ELSE m[q]]

\* map.entry(key).or_default().push(v)
EntryPush(m, key, v) ==
    IF key \in DOMAIN m THEN [m EXCEPT ![key] = Append(@, v)]
    ELSE [q \in (DOMAIN m) \cup {key} |-> IF q = key THEN <<v>> ELSE m[q]]

EmptyMap == [q \in {} |-> <<>>]

\* the loop of HdbscanClusterer::cluster over labels.into_iter().enumerate()
\* from position i on; indices are 0-based as in the code
RECURSIVE ClusterMapLoop(_, _, _)
ClusterMapLoop(ls, i, m) ==
    IF i > Len(ls) THEN m
    ELSE IF ls[i] >= 0
         THEN ClusterMapLoop(ls, i + 1, EntryPush(m, AsUsize(ls[i]), i - 1))
         ELSE ClusterMapLoop(ls, i + 1, m)

\* the loop of linalg::group_by_cluster; urls[i] panics past the end of urls.
\* An item is named by its index in urls.
RECURSIVE GroupLoop(_, _, _, _)
GroupLoop(n_urls, ls, i, m) ==
    IF i > Len(ls) THEN Ok(m)
    ELSE IF i > n_urls THEN Panic("index out of bounds")
    ELSE GroupLoop(n_urls, ls, i + 1, EntryPush(m, AsUsize(ls[i]), i - 1))

\* linalg::group_by_cluster(urls, labels) -> HashMap
GroupByCluster(n_urls, ls) == GroupLoop(n_urls, ls, 1, EmptyMap)

----------------------------------------------------------------------------
(* classify/mod.rs: HdbscanClusterer::cluster *)

\* knn.set_k(25).fit(embeddings)?: the fit uses the default KnnInit::Random,
\* whose x.select(Axis(0), indices) panics on a matrix without rows; the
\* fitted centres and labels are dropped with knn, only knn.k is read later.
ClusterFit(embeddings) ==
    IF NRows(embeddings) = 0 THEN Panic("index out of bounds") ELSE Ok(ClusterK)

\* the slice of the k-distance matrix handed to elbow_kneedle:
\* kdists.slice(s![.., dist_cols - 1])
ClusterKdSlice(kdists) ==
    LET dist_cols == NCols(kdists)
    IN  [i \in 1..NRows(kdists) |-> kdists[i][dist_cols]]

\* HdbscanClusterer::cluster(embeddings) up to the call of
\* cluster_embeddings(embeddings, eps, 5): the fit, the k-distances, the slice
\* and the selected radius.  The record carries the locals kd and eps; r is
\* the early result (a panic) or Ok(eps).
ClusterSelectEps(embeddings) ==
    LET fitted == ClusterFit(embeddings)
    IN  IF fitted.kind # "ok" THEN [r |-> fitted, kd |-> <<>>, eps |-> None]
        ELSE LET kdists == KnnDistances(embeddings, fitted.val)
             IN  IF kdists.kind # "ok" THEN [r |-> kdists, kd |-> <<>>, eps |-> None]
                 ELSE LET slice == ClusterKdSlice(kdists.val)
                          e == ElbowKneedle(slice)
                      IN  [r |-> e, kd |-> slice,
                           eps |-> IF e.kind = "ok" THEN Some(e.val) ELSE None]

\* the rest of HdbscanClusterer::cluster; hres is what the hdbscan crate
\* answers to cluster_embeddings: Ok(labels), or Err, which `?` returns
ClusterGroup(sel, hres) ==
    IF sel.r.kind # "ok" THEN [r |-> sel.r, labels |-> <<>>]
    ELSE IF hres.kind # "ok" THEN [r |-> hres, labels |-> <<>>]
    ELSE [r |-> Ok(ClusterMapLoop(hres.val, 1, EmptyMap)), labels |-> hres.val]

----------------------------------------------------------------------------
(* Inputs drawn by the calls *)

\* matrices of 0..MaxN rows with one feature column
SmallX == UNION {[1..n -> {<<v>> : v \in 0..MaxVal}] : n \in 0..MaxN}

\* matrices with more rows than ClusterK: ClusterK + 1 points on a line,
\* p apart (p = 0: all points coincide)
BigX == {[i \in 1..(ClusterK + 1) |-> <<p * (i - 1)>>] : p \in 0..MaxVal}

\* label vectors the density clusterer may answer for n points: every vector
\* for a small n; for a large n a run of noise, then cluster 0, then cluster
\* MaxLabel
LabelVectors(n) ==
    IF n <= MaxN + 1 THEN [1..n -> (-1)..MaxLabel]
    ELSE {[i \in 1..n |-> IF i <= a THEN -1 ELSE IF i <= b THEN 0 ELSE MaxLabel] :
            a \in 0..n, b \in 0..n}

\* what Hdbscan::cluster() answers: labels for every point, or an error
HdbscanResults(n) == {Err("HdbscanError")} \cup {Ok(l) : l \in LabelVectors(n)}

\* the slices elbow_kneedle is called with; SpecExample is the sequence of
\* the specification's testable property
SpecExample == <<1, 1, 1, 1, 10, 11, 12>>
ElbowInputs == {SpecExample} \cup UNION {[1..n -> 0..MaxVal] : n \in 0..(MaxN + 1)}

----------------------------------------------------------------------------
(* The calls *)

Init ==
    /\ op = "idle"
    /\ x = <<>>
    /\ k = 0
    /\ kd = <<>>
    /\ eps = None
    /\ labels = <<>>
    /\ map = EmptyMap
    /\ ret = NoRet
    /\ centered = <<>>
    /\ knn = <<>>
    /\ fit = [pc |-> "idle"]
    /\ lloyd = [pc |-> "idle"]
    /\ cls = [pc |-> "idle"]
    /\ cleaner = [pc |-> "idle"]
    /\ agent = [pc |-> "idle"]

CallKnnDistances ==
    /\ op = "idle"
    /\ \E xx \in SmallX, kk \in 0..MaxK :
        /\ op' = "Knn::distances"
        /\ x' = xx
        /\ k' = kk
        /\ ret' = KnnDistances(xx, kk)
    /\ UNCHANGED <<kd, eps, labels, map>>
    /\ UNCHANGED notLinalgVars

CallKnnKDistances ==
    /\ op = "idle"
    /\ \E xx \in SmallX, kk \in 0..MaxK :
        /\ op' = "knn_k_distances"
        /\ x' = xx
        /\ k' = kk
        /\ ret' = KnnKDistances(xx, kk)
    /\ UNCHANGED <<kd, eps, labels, map>>
    /\ UNCHANGED notLinalgVars

CallElbowKneedle ==
    /\ op = "idle"
    /\ \E s \in ElbowInputs :
        /\ op' = "elbow_kneedle"
        /\ kd' = s
        /\ ret' = ElbowKneedle(s)
    /\ UNCHANGED <<x, k, eps, labels, map>>
    /\ UNCHANGED notLinalgVars

CallSelectEpsFromKDists ==
    /\ op = "idle"
    /\ \E xx \in SmallX, kk \in 0..MaxK :
        LET out == SelectEpsFromKDists(xx, kk)
        IN  /\ op' = "select_eps_from_k_dists"
            /\ x' = xx
            /\ k' = kk
            /\ kd' = out.kd
            /\ ret' = out.r
            /\ eps' = IF out.r.kind = "ok" THEN Some(out.r.val) ELSE None
    /\ UNCHANGED <<labels, map>>
    /\ UNCHANGED notLinalgVars

CallGroupByCluster ==
    /\ op = "idle"
    /\ \E n_urls \in 0..MaxN, ls \in UNION {LabelVectors(n) : n \in 0..MaxN} :
        LET out == GroupByCluster(n_urls, ls)
        IN  /\ op' = "group_by_cluster"
            /\ x' = [i \in 1..n_urls |-> <<0>>]
            /\ labels' = ls
            /\ ret' = out
            /\ map' = IF out.kind = "ok" THEN out.val ELSE EmptyMap
    /\ UNCHANGED <<k, kd, eps>>
    /\ UNCHANGED notLinalgVars

\* HdbscanClusterer::cluster up to its call of the hdbscan crate: the call
\* returns at once when the fit or Knn::distances panics, and otherwise
\* waits in cluster_embeddings with kd and eps computed
CallCluster ==
    /\ op = "idle"
    /\ \E xx \in SmallX \cup BigX :
        LET sel == ClusterSelectEps(xx)
        IN  /\ op' = IF sel.r.kind = "ok" THEN "cluster_embeddings"
                     ELSE "HdbscanClusterer::cluster"
            /\ x' = xx
            /\ k' = ClusterK
            /\ kd' = sel.kd
            /\ eps' = sel.eps
            /\ ret' = IF sel.r.kind = "ok" THEN NoRet ELSE sel.r
    /\ UNCHANGED <<labels, map>>
    /\ UNCHANGED notLinalgVars

\* the hdbscan crate answers and HdbscanClusterer::cluster builds its map
ClusterEmbeddingsReturns ==
    /\ op = "cluster_embeddings"
    /\ \E hres \in HdbscanResults(NRows(x)) :
        LET out == ClusterGroup([r |-> Ok(eps.val)], hres)
        IN  /\ op' = "HdbscanClusterer::cluster"
            /\ labels' = out.labels
            /\ ret' = out.r
            /\ map' = IF out.r.kind = "ok" THEN out.r.val ELSE EmptyMap
    /\ UNCHANGED <<x, k, kd, eps>>
    /\ UNCHANGED notLinalgVars

NextLinalg ==
    \/ CallKnnDistances
    \/ CallKnnKDistances
    \/ CallElbowKneedle
    \/ CallSelectEpsFromKDists
    \/ CallGroupByCluster
    \/ CallCluster
    \/ ClusterEmbeddingsReturns

SpecLinalg == Init /\ [][NextLinalg]_vars

----------------------------------------------------------------------------
(* Claims about the k-distances, the elbow selector and the grouping *)

KDistanceOps == {"Knn::distances", "knn_k_distances", "HdbscanClusterer::cluster"}

\* C1 (as amended): a request for k-nearest-neighbour distances with k >= n,
\* through Knn::distances, linalg::knn_k_distances or HdbscanClusterer::cluster
\* (k = 25), ends in a panic; it yields neither an error result nor a matrix.
C1_KGeNPanics ==
    (op \in KDistanceOps /\ k >= NRows(x)) => ret.kind = "panic"

\* C1 (as claimed): such a request yields a typed error result.
C1_KGeNTypedError ==
    (op \in KDistanceOps /\ k >= NRows(x)) => ret.kind = "err"

C1_Witness ==
    /\ op = "Knn::distances"
    /\ k > 0
    /\ k = NRows(x)
    /\ ret.kind = "panic"

\* C2: no group of the map built by HdbscanClusterer::cluster or by
\* linalg::group_by_cluster holds the index of an item whose label is noise
\* (negative).
C2_NoiseNeverGrouped ==
    (op \in {"HdbscanClusterer::cluster", "group_by_cluster"} /\ ret.kind = "ok") =>
        \A key \in DOMAIN map : \A p \in 1..Len(map[key]) :
            labels[map[key][p] + 1] >= 0

\* C5: the radius eps handed to the density clusterer is strictly positive,
\* also when all points coincide.
C5_EpsPositive ==
    (op \in {"cluster_embeddings", "HdbscanClusterer::cluster"} /\ eps.some) =>
        eps.val > 0

\* the perpendicular distance from (i - 1, s[i]) to the chord from (0, s[1])
\* to (n - 1, s[n]), times the chord's length
PerpTimesChord(s, i) ==
    Abs((i - 1) * (s[Len(s)] - s[1]) - (s[i] - s[1]) * (Len(s) - 1))

\* v is the value at an index of maximum perpendicular distance to the chord
IsAtMaxPerp(s, v) ==
    \E i \in 1..Len(s) :
        /\ s[i] = v
        /\ \A j \in 1..Len(s) : PerpTimesChord(s, j) <= PerpTimesChord(s, i)

\* the index (1-based) before the largest jump of s
BeforeLargestJump(s) ==
    CHOOSE i \in 1..(Len(s) - 1) :
        \A j \in 1..(Len(s) - 1) : s[j + 1] - s[j] <= s[i + 1] - s[i]

\* C6 (as amended): for [1,1,1,1,10,11,12] the elbow selector returns 1, the
\* value immediately before the largest jump.
C6_ExampleSelectsBeforeJump ==
    (op = "elbow_kneedle" /\ kd = SpecExample) =>
        /\ ret = Ok(1)
        /\ ret.val = kd[BeforeLargestJump(kd)]

\* C6 (as claimed): for [1,1,1,1,10,11,12] the elbow selector returns 10, the
\* value immediately after the largest jump.
C6_ExampleSelectsTen ==
    (op = "elbow_kneedle" /\ kd = SpecExample) =>
        /\ ret = Ok(10)
        /\ ret.val = kd[BeforeLargestJump(kd) + 1]

C6_Witness ==
    /\ op = "elbow_kneedle"
    /\ kd = SpecExample
    /\ ret = Ok(1)

\* the distance from point i of xx to its kk-th nearest other point
KthNeighbourDistance(xx, i, kk) ==
    LET others == (1..NRows(xx)) \ {i}
        d(j) == Abs(xx[i][1] - xx[j][1])
    IN  CHOOSE v \in {d(j) : j \in others} :
            /\ Cardinality({j \in others : d(j) < v}) < kk
            /\ Cardinality({j \in others : d(j) <= v}) >= kk

\* s holds the kk-th-neighbour distances of all points of xx, ascending
IsSortedKthDistances(s, xx, kk) ==
    /\ Len(s) = NRows(xx)
    /\ IsAscending(s)
    /\ \A v \in {s[i] : i \in 1..Len(s)} :
        Cardinality({i \in 1..Len(s) : s[i] = v})
            = Cardinality({i \in 1..NRows(xx) : KthNeighbourDistance(xx, i, kk) = v})

\* C7: for a non-empty ascending sequence elbow_kneedle returns the value at
\* an index of maximum perpendicular distance to the chord, an element of the
\* sequence; select_eps_from_k_dists(X, k) returns this element for the sorted
\* k-th-neighbour distances of X.
C7_ElbowAtMaxPerpendicular ==
    /\ (op = "elbow_kneedle" /\ Len(kd) > 0 /\ IsAscending(kd)) =>
        (ret.kind = "ok" /\ IsAtMaxPerp(kd, ret.val))
    /\ (op = "select_eps_from_k_dists" /\ k >= 1 /\ k < NRows(x)) =>
        /\ ret.kind = "ok"
        /\ IsSortedKthDistances(kd, x, k)
        /\ IsAtMaxPerp(kd, ret.val)

C7_Witness ==
    /\ op = "select_eps_from_k_dists"
    /\ ret.kind = "ok"
    /\ \E i \in 2..(Len(kd) - 1) :
        /\ ret.val = kd[i]
        /\ PerpTimesChord(kd, i) > 0
        /\ \A j \in 1..Len(kd) : j # i => PerpTimesChord(kd, j) < PerpTimesChord(kd, i)

----------------------------------------------------------------------------
(* Exact fractions: <<numerator, denominator>>, denominator > 0, reduced *)

RECURSIVE Gcd(_, _)
Gcd(a, b) == IF b = 0 THEN a ELSE Gcd(b, a % b)

Rat(num, den) ==
    LET g == Gcd(Abs(num), den)
    IN  <<num \div g, den \div g>>

RatOfInt(a) == <<a, 1>>
RatAdd(p, q) == Rat(p[1] * q[2] + q[1] * p[2], p[2] * q[2])
RatSub(p, q) == Rat(p[1] * q[2] - q[1] * p[2], p[2] * q[2])
RatMul(p, q) == Rat(p[1] * q[1], p[2] * q[2])
RatLess(p, q) == p[1] * q[2] < q[1] * p[2]
RatLeq(p, q) == p[1] * q[2] <= q[1] * p[2]

\* the sum of s[lo..hi], halving the range
RECURSIVE RatSumRange(_, _, _)
RatSumRange(s, lo, hi) ==
    IF lo > hi THEN RatOfInt(0)
    ELSE IF lo = hi THEN s[lo]
    ELSE RatAdd(RatSumRange(s, lo, (lo + hi) \div 2),
                RatSumRange(s, (lo + hi) \div 2 + 1, hi))

RatSum(s) == RatSumRange(s, 1, Len(s))

----------------------------------------------------------------------------
(* classify/convert.rs *)

\* `embs[i][j] as f64`: every f32 is an f64, the cast keeps the value
F32AsF64(v) == v

\* the column count read from the last row
ConvertCols_LastRow(embs) == Len(embs[Len(embs)])

\* let cols = embs[0].len()
ConvertCols(embs) == Len(embs[1])

\* embeddings_to_ndarray(embs) -> Array2<f64>: embs[0] panics on an empty
\* input, embs[i][j] panics in a row shorter than cols
EmbeddingsToNdarray(embs) ==
    IF Len(embs) = 0 THEN Panic("index out of bounds")
    ELSE LET rows == Len(embs)
             cols == ConvertCols(embs)
         IN  IF \E i \in 1..rows : Len(embs[i]) < cols
             THEN Panic("index out of bounds")
             ELSE Ok([i \in 1..rows |-> [j \in 1..cols |-> F32AsF64(embs[i][j])]])

----------------------------------------------------------------------------
(* classify/pca.rs *)

\* data_norm.mean_axis(Axis(1)): the mean of every row over its columns;
\* None when the axis has length 0
MeanAxis1(m) ==
    IF NCols(m) = 0 THEN None
    ELSE Some([i \in 1..NRows(m) |-> Rat(SumSeq(m[i]), NCols(m))])

\* for mut col in centered.axis_iter_mut(Axis(1)) { col -= &mean }:
\* entry i of every column loses mean[i]
PcaCentered(m, mean) ==
    [i \in 1..NRows(m) |-> [j \in 1..NCols(m) |->
        RatSub(RatOfInt(m[i][j]), mean[i])]]

\* pca_reduce(data_norm, n_components) -> AppResult<Array2>.  svd_ok says
\* whether LAPACK's SVD converged.  svd(false, true) answers the full V^T
\* (d x d), so v.slice(s![.., 0..n_components]) panics for n_components > d.
\* The reduced matrix is known here by its shape only.  The record carries
\* the local `centered`.
PcaReduce(data_norm, n_components, svd_ok) ==
    LET mean == MeanAxis1(data_norm)
    IN  IF ~mean.some
        THEN [r |-> Panic("unwrap on None"),
              centered |-> <<>>]
        ELSE LET c == PcaCentered(data_norm, mean.val)
                 d == NCols(data_norm)
             IN  IF ~svd_ok THEN [r |-> Err("LinalgError"), centered |-> c]
                 ELSE IF n_components > d
                 THEN [r |-> Panic("slice out of bounds"), centered |-> c]
                 ELSE [r |-> Ok([nrows |-> NRows(data_norm), ncols |-> n_components]),
                       centered |-> c]

----------------------------------------------------------------------------
(* The calls of convert.rs and pca.rs *)

\* rows of 0..MaxCols entries
DrawnRows == UNION {[1..d -> 0..1] : d \in 0..MaxCols}

\* what an embedder may answer: 0..MaxN rows of any lengths
RaggedInputs == UNION {[1..n -> DrawnRows] : n \in 0..MaxN}

\* n x d matrices, n >= 1, d >= 1
PcaInputs == UNION {[1..n -> [1..d -> 0..1]] : n \in 1..MaxN, d \in 1..MaxCols}

CallEmbeddingsToNdarray ==
    /\ op = "idle"
    /\ \E embs \in RaggedInputs :
        /\ op' = "embeddings_to_ndarray"
        /\ x' = embs
        /\ ret' = EmbeddingsToNdarray(embs)
    /\ UNCHANGED <<k, centered>>
    /\ UNCHANGED notPrepVars

CallPcaReduce ==
    /\ op = "idle"
    /\ \E data_norm \in PcaInputs, n_components \in 0..MaxK, svd_ok \in BOOLEAN :
        LET out == PcaReduce(data_norm, n_components, svd_ok)
        IN  /\ op' = "pca_reduce"
            /\ x' = data_norm
            /\ k' = n_components
            /\ centered' = out.centered
            /\ ret' = out.r
    /\ UNCHANGED notPrepVars

NextPrep ==
    \/ CallEmbeddingsToNdarray
    \/ CallPcaReduce

SpecPrep == Init /\ [][NextPrep]_vars

----------------------------------------------------------------------------
(* Claims about pca_reduce and embeddings_to_ndarray *)

Min(a, b) == IF a < b THEN a ELSE b

\* C8: pca_reduce centres per feature: every column of the centred matrix
\* handed to the SVD sums to zero.
C8_ColumnsCentred ==
    (op = "pca_reduce" /\ NRows(centered) > 0) =>
        \A j \in 1..NCols(centered) :
            RatSum([i \in 1..NRows(centered) |-> centered[i][j]]) = RatOfInt(0)

\* C9: pca_reduce with n_components > min(n, d) returns an error result; it
\* neither panics nor returns a matrix.
C9_TooManyComponentsIsError ==
    (op = "pca_reduce" /\ k > Min(NRows(x), NCols(x))) => ret.kind = "err"

IsRagged(embs) == \E i \in 1..Len(embs) : Len(embs[i]) # Len(embs[1])

----------------------------------------------------------------------------
(* classify/knn/lloyd.rs: Lloyd's algorithm.  Matrices are sequences of rows
   of exact fractions; labels are the code's 0-based centre indices. *)

\* points per chunk of one Lloyd iteration
CHUNK_SIZE == 256

\* usize::MAX, the value labels_old is filled with before the first iteration
UsizeMax == -1

\* an array built entry by entry, held as a tuple
Arr(f) == f \o <<>>

\* the centre update without the division by the cluster weight
RatDiv_Undivided(p, q) == p

\* f64 division
RatDiv(p, q) ==
    IF q[1] < 0 THEN Rat(-(p[1] * q[2]), p[2] * (-q[1]))
    ELSE Rat(p[1] * q[2], p[2] * q[1])

\* a . b for two rows of fractions
RatDot(a, b) == RatSum([j \in 1..Len(a) |-> RatMul(a[j], b[j])])

\* row_norms(m, true)
RatRowNormsSq(m) == Arr([i \in 1..Len(m) |-> RatDot(m[i], m[i])])

\* row_norms(m, false) squared again by the caller (v * v after sqrt)
RatRowShiftSq(old, new) ==
    Arr([c \in 1..Len(old) |->
        RatSum([j \in 1..Len(old[c]) |->
            RatMul(RatSub(old[c][j], new[c][j]), RatSub(old[c][j], new[c][j]))])])

ZeroRow(d) == Arr([j \in 1..d |-> RatOfInt(0)])

\* Iterator::min_by over (index, value): 0-based index of the first minimum
RECURSIVE ArgMinFrom(_, _, _)
ArgMinFrom(row, j, best) ==
    IF j > Len(row) THEN best - 1
    ELSE IF RatLess(row[j], row[best]) THEN ArgMinFrom(row, j + 1, j)
    ELSE ArgMinFrom(row, j + 1, best)

\* a labelling that never looks at the distances
ArgMinFirst_AlwaysZero(row) == 0

ArgMinFirst(row) == ArgMinFrom(row, 2, 1)

\* inertia_dense
InertiaDense(xm, sample_weight, centers, ls) ==
    RatSum([i \in 1..Len(ls) |->
        RatMul(RatSum([j \in 1..Len(xm[i]) |->
                    RatMul(RatSub(xm[i][j], centers[ls[i] + 1][j]),
                           RatSub(xm[i][j], centers[ls[i] + 1][j]))]),
               sample_weight[i])])

\* update_chunk_dense: pairwise = -2 x.c + |x|^2 + |c|^2, labels by first
\* minimum, weighted sums and weights per centre when update_centers
UpdateChunkDense(x_chunk, sample_weight_chunk, centers_old, centers_squared_norms, update_centers) ==
    LET n_samples == Len(x_chunk)
        n_features == NCols(x_chunk)
        n_clusters == Len(centers_old)
        x_sq == RatRowNormsSq(x_chunk)
        pairwise == Arr([i \in 1..n_samples |-> Arr([c \in 1..n_clusters |->
            RatAdd(RatAdd(RatMul(RatOfInt(-2), RatDot(x_chunk[i], centers_old[c])),
                          x_sq[i]),
                   centers_squared_norms[c])])])
        labels_chunk == Arr([i \in 1..n_samples |-> ArgMinFirst(pairwise[i])])
    IN  [labels |-> labels_chunk,
         centers_new |-> Arr([c \in 1..n_clusters |-> Arr([j \in 1..n_features |->
            IF update_centers
            THEN RatSum([i \in 1..n_samples |->
                    IF labels_chunk[i] = c - 1
                    THEN RatMul(x_chunk[i][j], sample_weight_chunk[i])
                    ELSE RatOfInt(0)])
            ELSE RatOfInt(0)])]),
         weight |-> Arr([c \in 1..n_clusters |->
            IF update_centers
            THEN RatSum([i \in 1..n_samples |->
                    IF labels_chunk[i] = c - 1 THEN sample_weight_chunk[i] ELSE RatOfInt(0)])
            ELSE RatOfInt(0)])]

\* min_by(...).unwrap() on a distance row without entries
ChunkPanics(xm, centers) == Len(xm) > 0 /\ Len(centers) = 0

SubRows(s, start, end) == Arr([i \in 1..(end - start) |-> s[start + i]])

MatAdd(a, b) == Arr([c \in 1..Len(a) |-> Arr([j \in 1..Len(a[c]) |-> RatAdd(a[c][j], b[c][j])])])

VecAdd(a, b) == Arr([c \in 1..Len(a) |-> RatAdd(a[c], b[c])])

\* n_samples.min(CHUNK_SIZE)
NSamplesChunk(n_samples) == IF n_samples < CHUNK_SIZE THEN n_samples ELSE CHUNK_SIZE

\* n_chunks of lloyd_iter_chunked_dense, for n_samples > 0
NChunks(n_samples) ==
    LET div == n_samples \div NSamplesChunk(n_samples)
    IN  IF n_samples # div * NSamplesChunk(n_samples) THEN div + 1 ELSE div

\* a chunk loop whose last chunk is moved back to hold n_samples_chunk rows
ChunkRange_LastRealigned(n_samples, chunk_idx) ==
    IF chunk_idx = NChunks(n_samples) - 1
    THEN <<n_samples - NSamplesChunk(n_samples), n_samples>>
    ELSE <<chunk_idx * NSamplesChunk(n_samples),
           chunk_idx * NSamplesChunk(n_samples) + NSamplesChunk(n_samples)>>

\* <<start, end>> of chunk chunk_idx, 0-based, end exclusive
ChunkRange(n_samples, chunk_idx) ==
    LET n_samples_chunk == NSamplesChunk(n_samples)
        n_samples_rem == n_samples % n_samples_chunk
        start == chunk_idx * n_samples_chunk
    IN  IF chunk_idx = NChunks(n_samples) - 1 /\ n_samples_rem > 0
        THEN <<start, start + n_samples_rem>>
        ELSE <<start, start + n_samples_chunk>>

\* the chunk loop of lloyd_iter_chunked_dense from chunk_idx on: labels are
\* written into labels[start..end], sums and weights are accumulated
RECURSIVE LloydChunks(_, _, _, _, _, _, _, _)
LloydChunks(xm, sample_weight, centers_old, centers_squared_norms, update_centers, chunk_idx, n_chunks, acc) ==
    IF chunk_idx >= n_chunks THEN acc
    ELSE
        LET range == ChunkRange(Len(xm), chunk_idx)
            start == range[1]
            end == range[2]
            u == UpdateChunkDense(SubRows(xm, start, end),
                                  SubRows(sample_weight, start, end),
                                  centers_old, centers_squared_norms,
                                  update_centers)
        IN  LloydChunks(xm, sample_weight, centers_old, centers_squared_norms,
                        update_centers, chunk_idx + 1, n_chunks,
                        [labels |-> Arr([i \in 1..Len(xm) |->
                                        IF start < i /\ i <= end
                                        THEN u.labels[i - start]
                                        ELSE acc.labels[i]]),
                         centers_new |-> IF update_centers
                                         THEN MatAdd(acc.centers_new, u.centers_new)
                                         ELSE acc.centers_new,
                         weight |-> IF update_centers
                                    THEN VecAdd(acc.weight, u.weight)
                                    ELSE acc.weight])

\* an empty-cluster rule that also leaves a cluster of weight one where it was
LloydKeepsOldCenter_UpToOne(weight) == RatLeq(weight, RatOfInt(1))

\* the empty-cluster rule of lloyd_iter_chunked_dense
LloydKeepsOldCenter(weight) == ~ RatLess(RatOfInt(0), weight)

\* lloyd_iter_chunked_dense: (centers_new, weight_in_clusters, labels,
\* center_shift); center_shift is kept squared
LloydIterChunkedDense(xm, sample_weight, centers_old, update_centers) ==
    LET n_samples == Len(xm)
        n_features == NCols(xm)
        n_clusters == Len(centers_old)
        zeros == Arr([c \in 1..n_clusters |-> RatOfInt(0)])
    IN  IF n_samples = 0
        THEN [centers_new |-> centers_old, weight_in_clusters |-> zeros,
              labels |-> <<>>, center_shift |-> zeros]
        ELSE
            LET sums == LloydChunks(xm, sample_weight, centers_old,
                            RatRowNormsSq(centers_old), update_centers, 0,
                            NChunks(n_samples),
                            [labels |-> Arr([i \in 1..n_samples |-> 0]),
                             centers_new |-> Arr([c \in 1..n_clusters |-> ZeroRow(n_features)]),
                             weight |-> zeros])
                centers_new == Arr([c \in 1..n_clusters |->
                    IF LloydKeepsOldCenter(sums.weight[c]) THEN centers_old[c]
                    ELSE Arr([j \in 1..n_features |->
                            RatDiv(sums.centers_new[c][j], sums.weight[c])])])
            IN  IF update_centers
                THEN [centers_new |-> centers_new,
                      weight_in_clusters |-> sums.weight,
                      labels |-> sums.labels,
                      center_shift |-> RatRowShiftSq(centers_old, centers_new)]
                ELSE [centers_new |-> centers_old,
                      weight_in_clusters |-> sums.weight,
                      labels |-> sums.labels,
                      center_shift |-> zeros]

\* the state of one kmeans_single_lloyd call at the head of its loop
LloydStart(xm, sample_weight, centers_init, max_iter, tol) ==
    [x |-> xm,
     sample_weight |-> sample_weight,
     centers |-> centers_init,
     labels |-> [i \in 1..Len(xm) |-> 0],
     labels_old |-> [i \in 1..Len(xm) |-> UsizeMax],
     strict_convergence |-> FALSE,
     iterations |-> 0,
     i |-> 0,
     max_iter |-> max_iter,
     tol |-> tol,
     inertia |-> RatOfInt(0),
     pc |-> "loop"]

\* the labels kmeans_single_lloyd hands to inertia_dense
RefreshLabels_Skipped(strict_convergence, xm, sample_weight, centers, ls) == ls

RefreshLabels(strict_convergence, xm, sample_weight, centers, ls) ==
    IF ~ strict_convergence
    THEN LloydIterChunkedDense(xm, sample_weight, centers, FALSE).labels
    ELSE ls

\* what kmeans_single_lloyd returns: (labels, inertia, centers, n_iter)
LloydResult(l) ==
    [labels |-> l.labels, inertia |-> l.inertia, centers |-> l.centers,
     n_iter |-> l.iterations]

\* one pass of the body of `for i in 0..max_iter`
LloydIteration ==
    /\ op \in {"kmeans_single_lloyd", "Knn::fit"}
    /\ lloyd.pc = "loop"
    /\ lloyd.i < lloyd.max_iter
    /\ IF ChunkPanics(lloyd.x, lloyd.centers)
       THEN /\ lloyd' = [lloyd EXCEPT !.pc = "panic"]
            /\ ret' = Panic("unwrap on None")
       ELSE \E it \in {LloydIterChunkedDense(lloyd.x, lloyd.sample_weight,
                                              lloyd.centers, TRUE)} :
            LET same == it.labels = lloyd.labels_old
                center_shift_tot == RatSum(it.center_shift)
            IN  /\ lloyd' = [lloyd EXCEPT
                        !.iterations = lloyd.i + 1,
                        !.i = lloyd.i + 1,
                        !.centers = it.centers_new,
                        !.labels = it.labels,
                        !.labels_old = IF same THEN @ ELSE it.labels,
                        !.strict_convergence = same,
                        !.pc = IF same \/ RatLeq(center_shift_tot, lloyd.tol)
                               THEN "after" ELSE "loop"]
                /\ ret' = ret
    /\ UNCHANGED <<op, x, k, knn, fit>>
    /\ UNCHANGED notKMeansVars

\* the code after the loop: label refresh, inertia, return
LloydReturn ==
    /\ op \in {"kmeans_single_lloyd", "Knn::fit"}
    /\ \/ lloyd.pc = "after"
       \/ lloyd.pc = "loop" /\ lloyd.i >= lloyd.max_iter
    /\ IF ~ lloyd.strict_convergence /\ ChunkPanics(lloyd.x, lloyd.centers)
       THEN /\ lloyd' = [lloyd EXCEPT !.pc = "panic"]
            /\ ret' = Panic("unwrap on None")
       ELSE LET ls == RefreshLabels(lloyd.strict_convergence, lloyd.x,
                                    lloyd.sample_weight, lloyd.centers, lloyd.labels)
                done == [lloyd EXCEPT
                            !.labels = ls,
                            !.inertia = InertiaDense(lloyd.x, lloyd.sample_weight,
                                                     lloyd.centers, ls),
                            !.pc = "done"]
            IN  /\ lloyd' = done
                /\ ret' = IF op = "kmeans_single_lloyd" THEN Ok(LloydResult(done)) ELSE ret
    /\ UNCHANGED <<op, x, k, knn, fit>>
    /\ UNCHANGED notKMeansVars

\* values of the points and of the initial centres of the direct calls
KmValues == {0, 1, 3}
KmCenterValues == {0, 2}

\* rows of the points matrix
KmRows == 2
\* rows of the centre matrix
KmK == 2
\* max_iter
KmIter == 2

\* tolerace of a default Knn
DEFAULT_TOLERACE == <<1, 10000>>

TolChoices == {DEFAULT_TOLERACE, RatOfInt(1)}

\* matrices of one feature column
ColumnMatrices(vals, maxRows) ==
    UNION {[1..n -> {<<RatOfInt(v)>> : v \in vals}] : n \in 0..maxRows}

\* sample_weight: all ones, or growing with the row index
WeightChoices(n) == {[i \in 1..n |-> RatOfInt(1)], [i \in 1..n |-> RatOfInt(i)]}

CallKmeansSingleLloyd ==
    /\ op = "idle"
    /\ \E xm \in ColumnMatrices(KmValues, KmRows),
          centers_init \in ColumnMatrices(KmCenterValues, KmK),
          max_iter \in 0..KmIter, tol \in TolChoices :
        \E sample_weight \in WeightChoices(Len(xm)) :
            /\ op' = "kmeans_single_lloyd"
            /\ x' = xm
            /\ k' = Len(centers_init)
            /\ lloyd' = LloydStart(xm, sample_weight, centers_init, max_iter, tol)
    /\ UNCHANGED <<ret, knn, fit>>
    /\ UNCHANGED notKMeansVars

NextLloyd ==
    \/ CallKmeansSingleLloyd
    \/ LloydIteration
    \/ LloydReturn

SpecLloyd == Init /\ [][NextLloyd]_vars

----------------------------------------------------------------------------
(* Claims about kmeans_single_lloyd *)

\* |a - b|^2 computed from the differences
SqDist(a, b) ==
    RatSum([j \in 1..Len(a) |-> RatMul(RatSub(a[j], b[j]), RatSub(a[j], b[j]))])

\* c (0-based) is the lowest index among the centres nearest to the point p
IsLowestNearest(c, p, centers) ==
    /\ c \in 0..(Len(centers) - 1)
    /\ \A c2 \in 1..Len(centers) :
        /\ RatLeq(SqDist(p, centers[c + 1]), SqDist(p, centers[c2]))
        /\ c2 < c + 1 => RatLess(SqDist(p, centers[c + 1]), SqDist(p, centers[c2]))

\* C3: whatever ended the loop of kmeans_single_lloyd, every returned label
\* is the lowest index among the returned centres nearest to its point.
C3_LabelsMatchCenters ==
    (op = "kmeans_single_lloyd" /\ ret.kind = "ok") =>
        /\ Len(ret.val.labels) = Len(x)
        /\ \A i \in 1..Len(x) :
            IsLowestNearest(ret.val.labels[i], x[i], ret.val.centers)

\* max_iter ran out with centres still moving, and the labels of the last
\* iteration were stale against the returned centres
C3_Witness ==
    /\ op = "kmeans_single_lloyd"
    /\ ret.kind = "ok"
    /\ ~ lloyd.strict_convergence
    /\ lloyd.max_iter > 0
    /\ lloyd.iterations = lloyd.max_iter
    /\ ret.val.labels # lloyd.labels_old

----------------------------------------------------------------------------
(* classify/knn/mod.rs and utils.rs: Knn::fit and the two seeding strategies *)

\* values Uniform::new(0.0, 1.0) hands out, as fractions in [0, 1)
UnitDraws == {<<0, 1>>, <<1, 2>>, <<3, 4>>}

\* (v * n as f64) as usize
FloorTimes(v, n) == (v[1] * n) \div v[2]

\* (n as f64 * v).round() as usize: halves round away from zero
RoundTimes(n, v) == (2 * n * v[1] + v[2]) \div (2 * v[2])

\* (k as f64).ln() as usize
LnAsUsize(kk) == IF kk < 3 THEN 0 ELSE IF kk < 8 THEN 1 ELSE IF kk < 21 THEN 2 ELSE 3

\* KnnInit::n_init
NInit(init) ==
    IF init.n > 0 THEN init.n
    ELSE IF init.kind = "Random" THEN 10 ELSE 1

\* x.mean_axis(Axis(0)).unwrap_or(zeros)
MeanAxis0(xm) ==
    IF Len(xm) = 0 THEN ZeroRow(NCols(xm))
    ELSE Arr([j \in 1..NCols(xm) |->
            RatDiv(RatSum([i \in 1..Len(xm) |-> xm[i][j]]), RatOfInt(Len(xm)))])

\* x -= &x_mean
SubMean(xm, x_mean) ==
    Arr([i \in 1..Len(xm) |-> Arr([j \in 1..Len(xm[i]) |-> RatSub(xm[i][j], x_mean[j])])])

\* utils::euclidean_distances(a, b, None, Some(b_norm_squared), true)
EuclideanDistancesSq(a, b, b_norm_squared) ==
    LET aa == RatRowNormsSq(a)
    IN  Arr([i \in 1..Len(a) |-> Arr([j \in 1..Len(b) |->
            LET dist == RatAdd(RatAdd(RatMul(RatOfInt(-2), RatDot(a[i], b[j])), aa[i]),
                            b_norm_squared[j])
            IN  IF RatLess(RatOfInt(0), dist) THEN dist ELSE RatOfInt(0)])])

\* the entries of a matrix in row-major order
RECURSIVE Flatten(_)
Flatten(m) == IF Len(m) = 0 THEN <<>> ELSE m[1] \o Flatten(Tail(m))

\* m.dot(v) for a matrix and a vector
MatVec(m, v) == Arr([i \in 1..Len(m) |-> RatDot(m[i], v)])

RECURSIVE CumSum(_, _)
CumSum(flat, acc) ==
    IF Len(flat) = 0 THEN <<>>
    ELSE <<RatAdd(acc, flat[1])>> \o CumSum(Tail(flat), RatAdd(acc, flat[1]))

\* slice::binary_search_by on the ascending cumsum: the index of an entry
\* equal to rv (which one is left open when several are), else the
\* insertion point
BinarySearchResults(cumsum, rv) ==
    IF \E p \in 1..Len(cumsum) : cumsum[p] = rv
    THEN {p - 1 : p \in {q \in 1..Len(cumsum) : cumsum[q] = rv}}
    ELSE {Cardinality({p \in 1..Len(cumsum) : RatLess(cumsum[p], rv)})}

\* the two assert_eq! of searchsorted_weighted
SearchsortedShapeOk(sample_weight, closest_dist_sq) ==
    /\ NRows(closest_dist_sq) = Len(sample_weight)
    /\ NCols(closest_dist_sq) = Len(sample_weight)

\* searchsorted_weighted: the cumulative sums the random values are looked
\* up in
SearchsortedCumsum(sample_weight, closest_dist_sq) ==
    CumSum(Flatten(Arr([i \in 1..Len(sample_weight) |->
                Arr([j \in 1..Len(sample_weight) |->
                    RatMul(sample_weight[i], closest_dist_sq[i][j])])])),
           RatOfInt(0))

\* kmeans_plus_plus up to its loop: the first centre is the row
\* round(n_samples * v) of x
KppFirstCenter(xm, n_clusters, sample_weight, x_squared_norms, v) ==
    LET n_samples == Len(xm)
        center_id == RoundTimes(n_samples, v)
        centers == Arr([c \in 1..n_clusters |->
                        IF c = 1 THEN xm[center_id + 1] ELSE ZeroRow(NCols(xm))])
        closest_dist_sq == EuclideanDistancesSq(<<centers[1]>>, xm, x_squared_norms)
    IN  IF n_clusters = 0 \/ center_id >= n_samples
        THEN Panic("index out of bounds")
        ELSE Ok([centers |-> centers,
                 closest_dist_sq |-> closest_dist_sq,
                 current_pot |-> MatVec(closest_dist_sq, sample_weight),
                 c |-> 1])

\* one pass of `for c in 1..n_clusters` of kmeans_plus_plus, from the
\* candidate indices searchsorted_weighted returned
KppNextCenter(kpp, xm, sample_weight, x_squared_norms, ids) ==
    LET n_samples == Len(xm)
        n_local_trials == Len(ids)
        closest_flat == Flatten(kpp.closest_dist_sq)
        amax == Len(closest_flat) - 1
        candidate_ids == Arr([t \in 1..n_local_trials |->
                                IF ids[t] >= amax THEN amax ELSE ids[t]])
        dist == EuclideanDistancesSq(
                    Arr([t \in 1..n_local_trials |-> xm[candidate_ids[t] + 1]]),
                    xm, x_squared_norms)
        distance_to_candidates ==
            Arr([t \in 1..n_local_trials |-> Arr([j \in 1..n_samples |->
                LET p == (t - 1) * n_samples + j
                IN  IF p <= Len(closest_flat) /\ RatLess(closest_flat[p], dist[t][j])
                    THEN closest_flat[p] ELSE dist[t][j]])])
        candidates_pot == MatVec(distance_to_candidates, sample_weight)
        best_candidate == ArgMinFirst(candidates_pot)
    IN  IF \E t \in 1..n_local_trials : candidate_ids[t] >= n_samples
        THEN Panic("index out of bounds")
        ELSE IF n_samples # n_local_trials
        THEN Panic("unwrap on ShapeError")
        ELSE Ok([centers |-> [kpp.centers EXCEPT
                        ![kpp.c + 1] = xm[candidate_ids[best_candidate + 1] + 1]],
                 closest_dist_sq |->
                    Arr([t \in 1..n_local_trials |->
                        <<distance_to_candidates[best_candidate + 1][t]>>]),
                 current_pot |-> <<candidates_pot[best_candidate + 1]>>,
                 c |-> kpp.c + 1])

\* values of the points handed to fit
FitValues == {0, 1}

\* rows of x handed to fit
FitRows == 2
\* n_clusters of the Knn
FitK == 2
\* max_iterations of the Knn
FitIter == 1

\* tolerace of the Knn: the default is kept
FitTolChoices == {DEFAULT_TOLERACE}

\* the n_init a KnnInit is built with: 0 asks for the default
NInitChoices == {0, 2}

KnnInits == {[kind |-> kd0, n |-> n0] : kd0 \in {"Random", "KMeansPlusPlus"},
                                         n0 \in NInitChoices}

\* a Knn before its first fit
NewKnn(kk, init, max_iterations, tolerace) ==
    [k |-> kk, init |-> init, max_iterations |-> max_iterations,
     tolerace |-> tolerace,
     cluster_centers |-> None, n_features_out |-> None, labels |-> None,
     inertia |-> None, n_iter |-> None]

\* Knn::fit up to its loop over the n_init runs
CallFit ==
    /\ op = "idle"
    /\ \E xm \in ColumnMatrices(FitValues, FitRows), kk \in 1..FitK,
          init \in KnnInits, max_iterations \in 0..FitIter, tolerace \in FitTolChoices :
        LET x_mean == MeanAxis0(xm)
            xc == SubMean(xm, x_mean)
        IN  /\ op' = "Knn::fit"
            /\ x' = xm
            /\ k' = kk
            /\ knn' = NewKnn(kk, init, max_iterations, tolerace)
            /\ fit' = [x |-> xc,
                       sample_weight |-> Arr([i \in 1..Len(xm) |-> RatOfInt(1)]),
                       x_mean |-> x_mean,
                       x_squared_norms |-> RatRowNormsSq(xc),
                       run |-> 0,
                       best |-> None,
                       seen |-> None,
                       first |-> None,
                       kpp |-> None,
                       pc |-> "init"]
    /\ UNCHANGED <<ret, lloyd>>
    /\ UNCHANGED notKMeansVars

\* init_centroids, KnnInit::Random: row (v * n_samples) as usize per seed
FitInitRandom ==
    /\ op = "Knn::fit"
    /\ fit.pc = "init"
    /\ fit.run < NInit(knn.init)
    /\ knn.init.kind = "Random"
    /\ \E seeds \in [1..knn.k -> UnitDraws] :
        LET ids == Arr([c \in 1..knn.k |-> FloorTimes(seeds[c], Len(fit.x))])
        IN  IF \E c \in 1..knn.k : ids[c] >= Len(fit.x)
            THEN /\ ret' = Panic("index out of bounds")
                 /\ fit' = [fit EXCEPT !.pc = "panic"]
                 /\ lloyd' = lloyd
            ELSE /\ ret' = ret
                 /\ fit' = [fit EXCEPT !.pc = "lloyd"]
                 /\ lloyd' = LloydStart(fit.x, fit.sample_weight,
                                Arr([c \in 1..knn.k |-> fit.x[ids[c] + 1]]),
                                knn.max_iterations, knn.tolerace)
    /\ UNCHANGED <<op, x, k, knn>>
    /\ UNCHANGED notKMeansVars

\* what init_centroids hands to kmeans_single_lloyd once seeding is through
FitStartLloyd(centers_init) ==
    LloydStart(fit.x, fit.sample_weight, centers_init,
               knn.max_iterations, knn.tolerace)

\* init_centroids, KnnInit::KMeansPlusPlus: the first centre
FitKppFirstCenter ==
    /\ op = "Knn::fit"
    /\ fit.pc = "init"
    /\ fit.run < NInit(knn.init)
    /\ knn.init.kind = "KMeansPlusPlus"
    /\ \E v \in UnitDraws :
        LET first == KppFirstCenter(fit.x, knn.k, fit.sample_weight,
                                    fit.x_squared_norms, v)
        IN  IF first.kind = "panic"
            THEN /\ ret' = first
                 /\ fit' = [fit EXCEPT !.pc = "panic"]
                 /\ lloyd' = lloyd
            ELSE IF knn.k = 1
            THEN /\ ret' = ret
                 /\ fit' = [fit EXCEPT !.pc = "lloyd", !.kpp = Some(first.val)]
                 /\ lloyd' = FitStartLloyd(first.val.centers)
            ELSE /\ ret' = ret
                 /\ fit' = [fit EXCEPT !.pc = "kpp", !.kpp = Some(first.val)]
                 /\ lloyd' = lloyd
    /\ UNCHANGED <<op, x, k, knn>>
    /\ UNCHANGED notKMeansVars

\* init_centroids, KnnInit::KMeansPlusPlus: one further centre
FitKppNextCenter ==
    /\ op = "Knn::fit"
    /\ fit.pc = "kpp"
    /\ LET kpp == fit.kpp.val
           n_local_trials == 2 + LnAsUsize(knn.k)
       IN  IF ~ SearchsortedShapeOk(fit.sample_weight, kpp.closest_dist_sq)
           THEN /\ ret' = Panic("assertion failed: left == right")
                /\ fit' = [fit EXCEPT !.pc = "panic"]
                /\ lloyd' = lloyd
           ELSE \E draws \in [1..n_local_trials -> UnitDraws] :
                LET cumsum == SearchsortedCumsum(fit.sample_weight, kpp.closest_dist_sq)
                    rand_vals == Arr([t \in 1..n_local_trials |->
                                        RatMul(draws[t], kpp.current_pot[1])])
                IN  \E ids \in [1..n_local_trials -> 0..Len(cumsum)] :
                    /\ \A t \in 1..n_local_trials :
                            ids[t] \in BinarySearchResults(cumsum, rand_vals[t])
                    /\ LET next == KppNextCenter(kpp, fit.x, fit.sample_weight,
                                                 fit.x_squared_norms, ids)
                       IN  IF next.kind = "panic"
                           THEN /\ ret' = next
                                /\ fit' = [fit EXCEPT !.pc = "panic"]
                                /\ lloyd' = lloyd
                           ELSE IF next.val.c >= knn.k
                           THEN /\ ret' = ret
                                /\ fit' = [fit EXCEPT !.pc = "lloyd",
                                                      !.kpp = Some(next.val)]
                                /\ lloyd' = FitStartLloyd(next.val.centers)
                           ELSE /\ ret' = ret
                                /\ fit' = [fit EXCEPT !.kpp = Some(next.val)]
                                /\ lloyd' = lloyd
    /\ UNCHANGED <<op, x, k, knn>>
    /\ UNCHANGED notKMeansVars

\* every run replaces the best one
IsNewBest_Always(best, inertia) == TRUE

\* best_inertia.is_none_or(|bi| inertia < bi)
IsNewBest(best, inertia) == ~ best.some \/ RatLess(inertia, best.val.inertia)

\* the lowest and the highest inertia among the runs made so far
InertiaSeen(seen, inertia) ==
    IF ~ seen.some THEN Some([lowest |-> inertia, highest |-> inertia])
    ELSE Some([lowest |-> IF RatLess(inertia, seen.val.lowest)
                          THEN inertia ELSE seen.val.lowest,
               highest |-> IF RatLess(seen.val.highest, inertia)
                           THEN inertia ELSE seen.val.highest])

\* the end of one run of fit's loop: keep the run if it is the best so far;
\* fit.seen follows the inertia of the runs
FitKeepBest ==
    /\ op = "Knn::fit"
    /\ fit.pc = "lloyd"
    /\ lloyd.pc = "done"
    /\ fit' = [fit EXCEPT
                !.best = IF IsNewBest(fit.best, lloyd.inertia)
                         THEN Some(LloydResult(lloyd)) ELSE @,
                !.seen = InertiaSeen(@, lloyd.inertia),
                !.run = @ + 1,
                !.pc = "init"]
    /\ UNCHANGED <<op, x, k, ret, knn, lloyd>>
    /\ UNCHANGED notKMeansVars

\* fit after its loop: the best run is stored in the Knn
FitReturn ==
    /\ op = "Knn::fit"
    /\ fit.pc = "init"
    /\ fit.run >= NInit(knn.init)
    /\ LET best == fit.best.val
           fitted == [knn EXCEPT
                        !.n_features_out = Some(Len(best.centers)),
                        !.cluster_centers = Some(best.centers),
                        !.labels = Some(best.labels),
                        !.inertia = Some(best.inertia),
                        !.n_iter = Some(best.n_iter)]
       IN  /\ knn' = fitted
           /\ ret' = Ok(fitted)
    /\ fit' = [fit EXCEPT !.pc = "done"]
    /\ UNCHANGED <<op, x, k, lloyd>>
    /\ UNCHANGED notKMeansVars

NextFit ==
    \/ CallFit
    \/ FitInitRandom
    \/ FitKppFirstCenter
    \/ FitKppNextCenter
    \/ LloydIteration
    \/ LloydReturn
    \/ FitKeepBest
    \/ FitReturn

SpecFit == Init /\ [][NextFit]_vars

----------------------------------------------------------------------------
(* Claims about Knn::fit *)

\* C4: a fit on n >= 1 rows with k >= 1 returns, whichever seeding strategy
\* is used, and leaves n labels below k and a centre matrix of k rows.
C4_FitReturnsLabelsAndCenters ==
    (op = "Knn::fit" /\ Len(x) >= 1 /\ k >= 1 /\ fit.pc \in {"done", "panic"}) =>
        /\ ret.kind = "ok"
        /\ Len(knn.labels.val) = Len(x)
        /\ \A i \in 1..Len(x) : knn.labels.val[i] \in 0..(k - 1)
        /\ Len(knn.cluster_centers.val) = k

----------------------------------------------------------------------------
(* classify/linalg.rs: normalize_embedding *)

\* f64::NAN, the value of 0.0 / 0.0
NaN == <<0, 0>>

\* ndarray_linalg::norm::normalize, one row: n = v.norm(), every entry is
\* divided by n
NormalizeRow(row) ==
    LET n == Sqrt(SumSeq([j \in 1..Len(row) |-> row[j] * row[j]]))
    IN  Arr([j \in 1..Len(row) |-> IF n = 0 THEN NaN ELSE Rat(row[j], n)])

\* normalize_embedding(data) = normalize(data, NormalizeAxis::Row).0
NormalizeEmbedding(data) == Arr([i \in 1..Len(data) |-> NormalizeRow(data[i])])

\* f64::MAX, the largest finite value
F64Max == F64Inf - 1

\* classify.rs normalize_embedding(v): norm = sum_sq.sqrt().max(f64::MAX),
\* every entry is divided by norm
NormalizeEmbeddingVec(v) ==
    LET sum_sq == SumSeq([j \in 1..Len(v) |-> v[j] * v[j]])
        norm == IF Sqrt(sum_sq) > F64Max THEN Sqrt(sum_sq) ELSE F64Max
    IN  Arr([j \in 1..Len(v) |-> Rat(v[j], norm)])

\* entries of the rows handed to the normalisers
NormValues == {0, 3, 4}

\* rows whose norm is a whole number
NormRows(d) ==
    {row \in [1..d -> NormValues] :
        \E r \in 0..(4 * d) : r * r = SumSeq([j \in 1..d |-> row[j] * row[j]])}

CallNormalizeEmbedding ==
    /\ op = "idle"
    /\ \E n \in 1..MaxN, d \in 1..MaxCols :
        \E data \in [1..n -> NormRows(d)] :
            /\ op' = "normalize_embedding"
            /\ x' = data
            /\ ret' = Ok(NormalizeEmbedding(data))
    /\ UNCHANGED <<k, centered>>
    /\ UNCHANGED notPrepVars

\* the normalize_embedding of classify.rs, on one embedding
CallNormalizeEmbeddingVec ==
    /\ op = "idle"
    /\ \E d \in 1..MaxCols :
        \E v \in NormRows(d) :
            /\ op' = "classify.rs normalize_embedding"
            /\ x' = <<v>>
            /\ ret' = Ok(<<NormalizeEmbeddingVec(v)>>)
    /\ UNCHANGED <<k, centered>>
    /\ UNCHANGED notPrepVars

NextNormalize ==
    \/ CallNormalizeEmbedding
    \/ CallNormalizeEmbeddingVec

SpecNormalize == Init /\ [][NextNormalize]_vars

\* C17: every row of the normalised matrix has L2 norm 1, except that a row
\* of zeros stays a row of zeros.
C17_RowsUnitOrZero ==
    (op \in {"normalize_embedding", "classify.rs normalize_embedding"}) =>
        /\ Len(ret.val) = Len(x)
        /\ \A i \in 1..Len(x) :
            /\ Len(ret.val[i]) = Len(x[i])
            /\ IF \A j \in 1..Len(x[i]) : x[i][j] = 0
               THEN ret.val[i] = ZeroRow(Len(x[i]))
               ELSE /\ \A j \in 1..Len(x[i]) : ret.val[i][j] # NaN
                    /\ RatSum([j \in 1..Len(x[i]) |->
                            RatMul(ret.val[i][j], ret.val[i][j])]) = RatOfInt(1)

----------------------------------------------------------------------------
(* classify/mod.rs: Classifier::classify and build_cluster_output.  The
   embedder, the clusterer and the labeler are collaborators: each call of
   one answers Ok or Err, chosen freely. *)

\* groups a clusterer answers with
MaxGroups == 3
\* items per group
MaxGroupSize == 3

\* pca::pca_reduce(&arr, 25)
PcaComponents == 25

\* lengths of the embeddings an embedder answers with
EmbedDims == {1, PcaComponents}

\* items the clusterer leaves out of every group
NoiseCounts == {0, 1}

\* the first unit vector of length d
UnitRow(d) == [j \in 1..d |-> IF j = 1 THEN 1 ELSE 0]

\* the integers of a matrix whose fractions all have denominator 1
Numerators(m) == Arr([i \in 1..Len(m) |-> Arr([j \in 1..Len(m[i]) |-> m[i][j][1]])])

\* classify from embeddings_to_ndarray to pca_reduce
ClassifyReduce(embeddings, svd_ok) ==
    LET raw_arr == EmbeddingsToNdarray(embeddings)
    IN  IF raw_arr.kind = "panic" THEN raw_arr
        ELSE PcaReduce(Numerators(NormalizeEmbedding(raw_arr.val)),
                       PcaComponents, svd_ok).r

\* a clusterer's answer: group cid holds sizes[cid + 1] consecutive indices
RECURSIVE GroupOffset(_, _)
GroupOffset(sizes, c) == IF c = 0 THEN 0 ELSE sizes[c] + GroupOffset(sizes, c - 1)

ClusterAnswer(sizes) ==
    [cid \in 0..(Len(sizes) - 1) |->
        Arr([p \in 1..sizes[cid + 1] |-> GroupOffset(sizes, cid) + p - 1])]

GroupSizes == UNION {[1..g -> 0..MaxGroupSize] : g \in 0..MaxGroups}

\* classify up to its first await
CallClassify ==
    /\ op = "idle"
    /\ \E sizes \in GroupSizes, noise \in NoiseCounts :
        /\ op' = "Classifier::classify"
        /\ cls' = [items |-> Arr([i \in 1..(GroupOffset(sizes, Len(sizes)) + noise) |-> i]),
                   sizes |-> sizes,
                   stages |-> <<>>,
                   failed |-> None,
                   embeddings |-> <<>>,
                   grouped |-> <<>>,
                   pending |-> {},
                   clusters |-> <<>>,
                   misc |-> <<>>,
                   label_calls |-> <<>>,
                   pc |-> "embed"]
    /\ UNCHANGED <<x, k, kd, eps, labels, map, ret, centered, knn, fit, lloyd, cleaner, agent>>

\* a failed stage answered with an empty cluster list
ClassifyFails_EmptyOutput(stage, e) ==
    /\ ret' = Ok(<<>>)
    /\ cls' = [cls EXCEPT !.stages = Append(@, stage), !.failed = Some(stage),
                          !.pc = "done"]

\* what is left of classify once a stage has failed with e: `?` returns it
ClassifyFails(stage, e) ==
    /\ ret' = Err(e)
    /\ cls' = [cls EXCEPT !.stages = Append(@, stage), !.failed = Some(stage),
                          !.pc = "done"]

\* self.embedder.embed(&texts).await?
ClassifyEmbed ==
    /\ op = "Classifier::classify"
    /\ cls.pc = "embed"
    /\ \/ ClassifyFails("embed", "embedder")
       \/ \E d \in EmbedDims :
            /\ cls' = [cls EXCEPT !.stages = Append(@, "embed"),
                                  !.embeddings = [i \in 1..Len(cls.items) |-> UnitRow(d)],
                                  !.pc = "reduce"]
            /\ ret' = ret
    /\ UNCHANGED <<op, x, k, kd, eps, labels, map, centered, knn, fit, lloyd, cleaner, agent>>

\* embeddings_to_ndarray, normalize_embedding, pca::pca_reduce(&arr, 25)?
ClassifyPca ==
    /\ op = "Classifier::classify"
    /\ cls.pc = "reduce"
    /\ \E svd_ok \in BOOLEAN :
        LET reduced == ClassifyReduce(cls.embeddings, svd_ok)
        IN  IF reduced.kind = "err" THEN ClassifyFails("pca", reduced.val)
            ELSE IF reduced.kind = "panic"
            THEN /\ ret' = reduced
                 /\ cls' = [cls EXCEPT !.stages = Append(@, "pca"), !.pc = "done"]
            ELSE /\ ret' = ret
                 /\ cls' = [cls EXCEPT !.stages = Append(@, "pca"), !.pc = "cluster"]
    /\ UNCHANGED <<op, x, k, kd, eps, labels, map, centered, knn, fit, lloyd, cleaner, agent>>

\* self.clusterer.cluster(&reduced)? and the loop that groups the items
ClassifyCluster ==
    /\ op = "Classifier::classify"
    /\ cls.pc = "cluster"
    /\ \/ ClassifyFails("cluster", "clusterer")
       \/ LET clusters == ClusterAnswer(cls.sizes)
          IN  /\ cls' = [cls EXCEPT
                    !.stages = Append(@, "cluster"),
                    !.grouped = [cid \in DOMAIN clusters |->
                        Arr([p \in 1..Len(clusters[cid]) |->
                            cls.items[clusters[cid][p] + 1]])],
                    !.pending = DOMAIN clusters,
                    !.pc = "build"]
              /\ ret' = ret
    /\ UNCHANGED <<op, x, k, kd, eps, labels, map, centered, knn, fit, lloyd, cleaner, agent>>

\* urls.len() < 3
IsUndersized_BelowTwo(urls) == Len(urls) < 2

IsUndersized(urls) == Len(urls) < 3

\* the label the model answers a label request with
LabelAnswer == "label"

\* label_url_cluster(client, &urls).await?, answered Ok or Err, and the push
\* of the labelled cluster
LabelAndPush(urls, base, next_pc, returns) ==
    \/ /\ ret' = Err("labeler")
       /\ cls' = [base EXCEPT !.stages = Append(@, "label"),
                              !.label_calls = Append(@, urls),
                              !.failed = Some("label"),
                              !.pc = "done"]
    \/ LET pushed == [base EXCEPT
                        !.stages = Append(@, "label"),
                        !.label_calls = Append(@, urls),
                        !.clusters = Append(@, [label |-> LabelAnswer, urls |-> urls]),
                        !.pc = next_pc]
       IN  /\ cls' = pushed
           /\ ret' = IF returns THEN Ok(pushed.clusters) ELSE ret

\* one pass of `for (_cid, urls) in grouped.into_iter()`: the HashMap hands
\* out its entries in any order
BuildNextGroup ==
    /\ op = "Classifier::classify"
    /\ cls.pc = "build"
    /\ \E cid \in cls.pending :
        LET urls == cls.grouped[cid]
            rest == [cls EXCEPT !.pending = @ \ {cid}]
        IN  IF Len(urls) = 0
            THEN /\ cls' = rest
                 /\ ret' = ret
            ELSE IF IsUndersized(urls)
            THEN /\ cls' = [rest EXCEPT !.misc = @ \o urls]
                 /\ ret' = ret
            ELSE LabelAndPush(urls, rest, "build", FALSE)
    /\ UNCHANGED <<op, x, k, kd, eps, labels, map, centered, knn, fit, lloyd, cleaner, agent>>

\* build_cluster_output after the loop: the misc bucket and the return
BuildMiscAndReturn ==
    /\ op = "Classifier::classify"
    /\ cls.pc = "build"
    /\ cls.pending = {}
    /\ IF Len(cls.misc) # 0
       THEN LabelAndPush(cls.misc, cls, "done", TRUE)
       ELSE /\ cls' = [cls EXCEPT !.pc = "done"]
            /\ ret' = Ok(cls.clusters)
    /\ UNCHANGED <<op, x, k, kd, eps, labels, map, centered, knn, fit, lloyd, cleaner, agent>>

NextClassify ==
    \/ CallClassify
    \/ ClassifyEmbed
    \/ ClassifyPca
    \/ ClassifyCluster
    \/ BuildNextGroup
    \/ BuildMiscAndReturn

SpecClassify == Init /\ [][NextClassify]_vars

----------------------------------------------------------------------------
(* Claims about classify and build_cluster_output *)

\* the error each stage fails with
StageError(stage) ==
    CASE stage = "embed" -> "embedder"
      [] stage = "pca" -> "LinalgError"
      [] stage = "cluster" -> "clusterer"
      [] stage = "label" -> "labeler"

\* C11: once a stage of classify has failed (the embedder, the SVD of the
\* PCA, the clusterer or a label request answered Err), classify has
\* returned that error, the failed stage is the last one executed, and no
\* cluster list is returned.
C11_StageErrorIsReturned ==
    (op = "Classifier::classify" /\ cls.failed.some) =>
        /\ ret = Err(StageError(cls.failed.val))
        /\ cls.pc = "done"
        /\ cls.stages[Len(cls.stages)] = cls.failed.val

\* a label request failed after an earlier cluster had been labelled
C11_Witness ==
    /\ op = "Classifier::classify"
    /\ cls.pc = "done"
    /\ cls.failed = Some("label")
    /\ Len(cls.clusters) >= 1
    /\ ret = Err("labeler")

Range(f) == {f[p] : p \in DOMAIN f}

\* the groups build_cluster_output keeps as clusters of their own
SurvivingGroups(grouped) == {cid \in DOMAIN grouped : Len(grouped[cid]) >= 3}

\* the items of the groups of 1 or 2 items
UndersizedItems(grouped) ==
    UNION {Range(grouped[cid]) : cid \in {c \in DOMAIN grouped : Len(grouped[c]) \in {1, 2}}}

\* C12: the cluster list build_cluster_output returns holds every group of
\* at least 3 items as one cluster with exactly the group's items, and one
\* more cluster with all items of the groups of 1 or 2 items when there are
\* such items; the labeler was called once per returned cluster, with that
\* cluster's items; every grouped item is in exactly one place of the list.
C12_GroupsAndCatchAll ==
    (op = "Classifier::classify" /\ ret.kind = "ok") =>
        LET out == ret.val
            big == SurvivingGroups(cls.grouped)
            small == UndersizedItems(cls.grouped)
            extra == {p \in 1..Len(out) :
                        out[p].urls \notin {cls.grouped[cid] : cid \in big}}
        IN  /\ \A cid \in big :
                Cardinality({p \in 1..Len(out) : out[p].urls = cls.grouped[cid]}) = 1
            /\ Len(out) = Cardinality(big) + (IF small = {} THEN 0 ELSE 1)
            /\ IF small = {} THEN extra = {}
               ELSE /\ Cardinality(extra) = 1
                    /\ \A p \in extra : /\ Range(out[p].urls) = small
                                        /\ Len(out[p].urls) = Cardinality(small)
            /\ cls.label_calls = [p \in 1..Len(out) |-> out[p].urls]
            /\ \A cid \in DOMAIN cls.grouped : \A item \in Range(cls.grouped[cid]) :
                Cardinality({pq \in {<<p, q>> : p \in 1..Len(out), q \in 1..MaxGroups * MaxGroupSize} :
                    /\ pq[2] <= Len(out[pq[1]].urls)
                    /\ out[pq[1]].urls[pq[2]] = item}) = 1

\* one group survived and two undersized groups were merged
C12_Witness ==
    /\ op = "Classifier::classify"
    /\ ret.kind = "ok"
    /\ Cardinality(SurvivingGroups(cls.grouped)) = 1
    /\ Cardinality({c \in DOMAIN cls.grouped : Len(cls.grouped[c]) \in {1, 2}}) = 2
    /\ Len(ret.val) = 2
    /\ Len(cls.label_calls) = 2

----------------------------------------------------------------------------
(* Claims about the k-distance matrix *)

\* C13: for k < n the k-distance matrix of Knn::distances and of
\* knn_k_distances has n rows of k entries; entry j of row i is the j-th
\* smallest distance from point i to the other n - 1 points (points equal to
\* point i count, point i does not), so every row is ascending.
C13_KDistanceMatrix ==
    (op \in {"Knn::distances", "knn_k_distances"} /\ k < NRows(x)) =>
        /\ ret.kind = "ok"
        /\ Len(ret.val) = NRows(x)
        /\ \A i \in 1..NRows(x) :
            /\ Len(ret.val[i]) = k
            /\ IsAscending(ret.val[i])
            /\ \A j \in 1..k : ret.val[i][j] = KthNeighbourDistance(x, i, j)

\* a point with a twin: its nearest other point is at distance 0, the
\* second nearest is not
C13_Witness ==
    /\ op = "Knn::distances"
    /\ k = 2
    /\ NRows(x) >= 3
    /\ ret.kind = "ok"
    /\ \E i \in 1..NRows(x) : ret.val[i][1] = 0 /\ ret.val[i][2] > 0

----------------------------------------------------------------------------
(* Claims about the restarts of Knn::fit *)

\* what fit stored in the Knn, as one run result
StoredRun == [labels |-> knn.labels.val, inertia |-> knn.inertia.val,
              centers |-> knn.cluster_centers.val, n_iter |-> knn.n_iter.val]

\* C14: a fit that returns has made n_init runs (10 for random init, 1 for
\* k-means++ when n_init is not positive); the inertia it stored is the
\* lowest among the runs, and the labels, centres, inertia and iteration
\* count it stored are those of one run: the best one kept by the loop, whose
\* inertia is the inertia of its labels against its centres.
C14_BestOfNInitRuns ==
    (op = "Knn::fit" /\ ret.kind = "ok") =>
        /\ fit.run = (IF knn.init.n > 0 THEN knn.init.n
                      ELSE IF knn.init.kind = "Random" THEN 10 ELSE 1)
        /\ StoredRun = fit.best.val
        /\ StoredRun.inertia = fit.seen.val.lowest
        /\ StoredRun.inertia = InertiaDense(fit.x, fit.sample_weight,
                                            StoredRun.centers, StoredRun.labels)

\* the ten runs of a default random-init fit did not all end alike: the
\* stored run beats another
C14_Witness ==
    /\ op = "Knn::fit"
    /\ ret.kind = "ok"
    /\ knn.init = [kind |-> "Random", n |-> 0]
    /\ fit.run = 10
    /\ RatLess(StoredRun.inertia, fit.seen.val.highest)

----------------------------------------------------------------------------
(* Two fits of one Knn on one x.  The Knn holds no seed: every draw of
   init_centroids goes through rand::rng(), the thread's generator, so the
   second fit draws afresh. *)

\* Knn::fit called again with the x of the fit that has returned;
\* fit.first keeps what the first fit stored
CallFitAgain ==
    /\ op = "Knn::fit"
    /\ fit.pc = "done"
    /\ ret.kind = "ok"
    /\ ~ fit.first.some
    /\ fit' = [fit EXCEPT !.run = 0, !.best = None, !.seen = None, !.kpp = None,
                          !.first = Some(StoredRun), !.pc = "init"]
    /\ ret' = NoRet
    /\ UNCHANGED <<op, x, k, knn, lloyd>>
    /\ UNCHANGED notKMeansVars

NextRefit ==
    \/ NextFit
    \/ CallFitAgain

SpecRefit == Init /\ [][NextRefit]_vars

\* C15: two fits of the same Knn (same k, init, max_iterations, tolerace and
\* distribution) on the same x store the same labels, centres and inertia.
C15_RefitIsIdentical ==
    (op = "Knn::fit" /\ ret.kind = "ok" /\ fit.first.some) =>
        /\ StoredRun.labels = fit.first.val.labels
        /\ StoredRun.centers = fit.first.val.centers
        /\ StoredRun.inertia = fit.first.val.inertia

----------------------------------------------------------------------------
(* Claim about successive iterations of kmeans_single_lloyd *)

\* inertia_dense of the labels/centres pair a call holds
LloydInertia(l) == InertiaDense(l.x, l.sample_weight, l.centers, l.labels)

\* C16: from the first iteration on, a further iteration of the loop of
\* kmeans_single_lloyd never leaves the call with a labels/centres pair of
\* higher inertia than the pair it started from.
C16_InertiaNeverIncreases ==
    [][(lloyd.pc = "loop" /\ lloyd.i >= 1 /\ lloyd'.pc \in {"loop", "after"})
            => RatLeq(LloydInertia(lloyd'), LloydInertia(lloyd))]_vars

\* the second iteration has run and strictly lowered the inertia of the pair
\* the first iteration left
C16_Witness ==
    /\ op = "kmeans_single_lloyd"
    /\ lloyd.pc \in {"loop", "after"}
    /\ lloyd.i = 2
    /\ \E centers_init \in ColumnMatrices(KmCenterValues, KmK) :
        /\ Len(centers_init) > 0
        /\ LET first == LloydIterChunkedDense(lloyd.x, lloyd.sample_weight,
                                              centers_init, TRUE)
               second == LloydIterChunkedDense(lloyd.x, lloyd.sample_weight,
                                               first.centers_new, TRUE)
           IN  /\ ~ RatLeq(RatSum(first.center_shift), lloyd.tol)
               /\ second.centers_new = lloyd.centers
               /\ second.labels = lloyd.labels
               /\ RatLess(LloydInertia(lloyd),
                          InertiaDense(lloyd.x, lloyd.sample_weight,
                                       first.centers_new, first.labels))

----------------------------------------------------------------------------
(* ai/mod.rs: ResponseCleaner.  A response is a sequence of characters, each
   a string of length one. *)

Quote == "\""
Backslash == "\\"

\* char::is_ascii_alphabetic
AsciiAlphabetic ==
    {"a", "b", "c", "d", "e", "f", "g", "h", "i", "j", "k", "l", "m",
     "n", "o", "p", "q", "r", "s", "t", "u", "v", "w", "x", "y", "z",
     "A", "B", "C", "D", "E", "F", "G", "H", "I", "J", "K", "L", "M",
     "N", "O", "P", "Q", "R", "S", "T", "U", "V", "W", "X", "Y", "Z"}

\* char::is_ascii_digit
AsciiDigit == {"0", "1", "2", "3", "4", "5", "6", "7", "8", "9"}

\* a number that stops at its first character that is not a digit
IsNumberChar_DigitsOnly(c) == c \in AsciiDigit

\* '0'..='9' | '.' | '-' | '+' | 'e' | 'E'
IsNumberChar(c) == c \in AsciiDigit \cup {".", "-", "+", "e", "E"}

\* a string in which a backslash escapes nothing
StartsEscape_Never(c) == FALSE

\* c == '\\' inside quotes
StartsEscape(c) == c = Backslash

\* matches!(literal_buffer, "true" | "false" | "null")
IsValidLiteral(literal_buffer) ==
    literal_buffer \in {<<"t", "r", "u", "e">>, <<"f", "a", "l", "s", "e">>,
                        <<"n", "u", "l", "l">>}

\* ResponseCleaner::new, with the locals of clean at the head of its loop
NewCleaner(response) ==
    [response |-> response,
     pos |-> 1,
     output |-> <<>>,
     stack |-> <<>>,
     expect |-> "Value",
     in_quotes |-> FALSE,
     is_escaped |-> FALSE,
     in_number |-> FALSE,
     literal_buffer |-> <<>>,
     pc |-> "loop"]

\* ResponseCleaner::reset
Reset(s) ==
    [s EXCEPT !.stack = <<>>, !.expect = "Value", !.in_quotes = FALSE,
              !.is_escaped = FALSE, !.in_number = FALSE, !.literal_buffer = <<>>]

\* ResponseCleaner::transition_after_value
TransitionAfterValue(s) ==
    [s EXCEPT !.expect = IF s.stack = <<>> THEN "Done" ELSE "CommaOrEnd"]

Push(s, c) == [s EXCEPT !.output = Append(@, c)]

StackLast(s) == IF s.stack = <<>> THEN None ELSE Some(s.stack[Len(s.stack)])

StackPop(s) == [s EXCEPT !.stack = SubSeq(@, 1, Len(@) - 1)]

\* the `match c` on structural characters
CleanStructural(s, c) ==
    CASE c = "{" ->
            IF s.expect = "Value"
            THEN Push([s EXCEPT !.stack = Append(@, "Object"), !.expect = "Key"], c)
            ELSE s
      [] c = "[" ->
            IF s.expect = "Value"
            THEN Push([s EXCEPT !.stack = Append(@, "Array"), !.expect = "Value"], c)
            ELSE s
      [] c = "}" ->
            IF StackLast(s) = Some("Object") /\ s.expect \in {"Key", "CommaOrEnd"}
            THEN Push(TransitionAfterValue(StackPop(s)), c)
            ELSE s
      [] c = "]" ->
            IF StackLast(s) = Some("Array") /\ s.expect \in {"Value", "CommaOrEnd"}
            THEN Push(TransitionAfterValue(StackPop(s)), c)
            ELSE s
      [] c = Quote ->
            IF s.expect \in {"Key", "Value"}
            THEN Push([s EXCEPT !.in_quotes = TRUE], c)
            ELSE s
      [] c = ":" ->
            IF s.expect = "Colon"
            THEN Push([s EXCEPT !.expect = "Value"], c)
            ELSE s
      [] c = "," ->
            IF s.expect = "CommaOrEnd" /\ s.stack # <<>>
            THEN Push([s EXCEPT !.expect = IF StackLast(s) = Some("Object")
                                           THEN "Key" ELSE "Value"], c)
            ELSE s
      [] OTHER -> s

\* the loop body from "Check literal start" on
CleanOutsideToken(s, c) ==
    IF c \in AsciiAlphabetic
    THEN [s EXCEPT !.literal_buffer = Append(@, c)]
    ELSE IF (c = "-" \/ c \in AsciiDigit) /\ s.expect = "Value"
    THEN Push([s EXCEPT !.in_number = TRUE], c)
    ELSE CleanStructural(s, c)

\* the loop body from "Handle Literal termination" on
CleanAfterNumber(s, c) ==
    IF s.literal_buffer # <<>>
    THEN IF c \in AsciiAlphabetic
         THEN [s EXCEPT !.literal_buffer = Append(@, c)]
         ELSE LET flushed ==
                    IF IsValidLiteral(s.literal_buffer) /\ s.expect = "Value"
                    THEN TransitionAfterValue(
                            [s EXCEPT !.output = @ \o s.literal_buffer])
                    ELSE s
              IN  CleanOutsideToken([flushed EXCEPT !.literal_buffer = <<>>], c)
    ELSE CleanOutsideToken(s, c)

\* the body of `for c in response.as_ref().chars()`
CleanChar(s, c) ==
    IF s.is_escaped
    THEN LET t == [s EXCEPT !.is_escaped = FALSE]
         IN  IF s.in_quotes THEN Push(t, c) ELSE t
    ELSE IF s.in_quotes
    THEN IF StartsEscape(c) THEN Push([s EXCEPT !.is_escaped = TRUE], c)
         ELSE IF c = Quote
         THEN LET closed == Push([s EXCEPT !.in_quotes = FALSE], c)
              IN  IF s.expect = "Key" THEN [closed EXCEPT !.expect = "Colon"]
                  ELSE TransitionAfterValue(closed)
         ELSE Push(s, c)
    ELSE IF s.in_number
    THEN IF IsNumberChar(c) THEN Push(s, c)
         ELSE CleanAfterNumber(TransitionAfterValue([s EXCEPT !.in_number = FALSE]), c)
    ELSE CleanAfterNumber(s, c)

\* the "Final flush" of clean
FinalFlush(s) ==
    IF s.literal_buffer # <<>> /\ IsValidLiteral(s.literal_buffer) /\ s.expect = "Value"
    THEN [s EXCEPT !.output = @ \o s.literal_buffer]
    ELSE s

(* The responses handed to clean *)

\* value nodes of a document drawn: 1..MaxNodes
MaxNodes == 3

LBracket == <<"[">>
RBracket == <<"]">>
LBrace == <<"{">>
RBrace == <<"}">>
Comma == <<",">>
Colon == <<":">>

\* string tokens: a plain one, one full of structural characters and an
\* escaped quote, one that ends in an escaped backslash
PlainString == <<Quote, "o", "k", Quote>>
BusyString == <<Quote, "[", "{", ",", ":", Backslash, Quote, "}", "]", Quote>>
SlashString == <<Quote, "a", " ", Backslash, Backslash, Quote>>

KeyTokens == {BusyString, SlashString}

ScalarTokens ==
    {PlainString, BusyString, SlashString,
     <<"7">>, <<"-", "1", ".", "5", "e", "+", "2">>,
     <<"t", "r", "u", "e">>, <<"f", "a", "l", "s", "e">>, <<"n", "u", "l", "l">>}

\* JSON values of exactly n value nodes, as token sequences; JsonLists and
\* JsonMembers are the non-empty contents of an array and of an object
RECURSIVE JsonValues(_), JsonLists(_), JsonMembers(_)
JsonValues(n) ==
    IF n <= 1
    THEN {<<t>> : t \in ScalarTokens} \cup {<<LBracket, RBracket>>, <<LBrace, RBrace>>}
    ELSE {<<LBracket>> \o l \o <<RBracket>> : l \in JsonLists(n - 1)}
         \cup {<<LBrace>> \o m \o <<RBrace>> : m \in JsonMembers(n - 1)}

JsonLists(n) ==
    JsonValues(n) \cup
    UNION {{v \o <<Comma>> \o l : v \in JsonValues(i), l \in JsonLists(n - i)} :
                i \in 1..(n - 1)}

JsonMembers(n) ==
    {<<key, Colon>> \o v : key \in KeyTokens, v \in JsonValues(n)} \cup
    UNION {{<<key, Colon>> \o v \o <<Comma>> \o m :
                key \in KeyTokens, v \in JsonValues(i), m \in JsonMembers(n - i)} :
                i \in 1..(n - 1)}

\* whitespace written before token i and after the last token
WsStyles == {"compact", "spaced", "indented"}

Gap(style, i) ==
    CASE style = "compact" -> <<>>
      [] style = "spaced" -> <<" ">>
      [] OTHER -> IF i % 2 = 0 THEN <<"\n", "\t">> ELSE <<>>

RECURSIVE RenderFrom(_, _, _)
RenderFrom(tokens, style, i) ==
    IF i > Len(tokens) THEN Gap(style, i)
    ELSE Gap(style, i) \o tokens[i] \o RenderFrom(tokens, style, i + 1)

Render(tokens, style) == RenderFrom(tokens, style, 1)

JsonTokenDocuments == UNION {JsonValues(n) : n \in 1..MaxNodes}

\* the well-formed documents handed to clean
JsonDocuments == {Render(t, style) : t \in JsonTokenDocuments, style \in WsStyles}

CallClean ==
    /\ op = "idle"
    /\ \E response \in JsonDocuments :
        /\ op' = "ResponseCleaner::clean"
        /\ x' = response
        /\ cleaner' = NewCleaner(response)
    /\ UNCHANGED <<k, kd, eps, labels, map, ret, centered, knn, fit, lloyd, cls, agent>>

\* one pass of the loop of clean
CleanNextChar ==
    /\ op = "ResponseCleaner::clean"
    /\ cleaner.pc = "loop"
    /\ cleaner.pos <= Len(cleaner.response)
    /\ cleaner' = [CleanChar(cleaner, cleaner.response[cleaner.pos])
                        EXCEPT !.pos = cleaner.pos + 1]
    /\ UNCHANGED <<op, x, k, kd, eps, labels, map, ret, centered, knn, fit, lloyd, cls, agent>>

\* the code of clean after its loop: final flush, reset, return
CleanReturn ==
    /\ op = "ResponseCleaner::clean"
    /\ cleaner.pc = "loop"
    /\ cleaner.pos > Len(cleaner.response)
    /\ LET flushed == FinalFlush(cleaner)
       IN  /\ cleaner' = [Reset(flushed) EXCEPT !.pc = "done"]
           /\ ret' = Ok(flushed.output)
    /\ UNCHANGED <<op, x, k, kd, eps, labels, map, centered, knn, fit, lloyd, cls, agent>>

NextClean ==
    \/ CallClean
    \/ CleanNextChar
    \/ CleanReturn

SpecClean == Init /\ [][NextClean]_vars

(* Noisy responses *)

\* value nodes of a document wrapped in noise: 1..NoisyNodes
NoisyNodes == 2

\* text around the document
NoiseTexts ==
    {<<>>,
     <<"#", "#", " ">>,
     <<"o", "k", "!", " ">>,
     <<"-", " ">>,
     <<"n", "o", " ", "1", ":", " ">>}

NoisyTokenDocuments == UNION {JsonValues(n) : n \in 1..NoisyNodes}

CallCleanNoisy ==
    /\ op = "idle"
    /\ \E prefix \in NoiseTexts, suffix \in NoiseTexts :
        \E t \in NoisyTokenDocuments, style \in WsStyles :
            LET response == prefix \o Render(t, style) \o suffix
            IN  /\ op' = "ResponseCleaner::clean"
                /\ x' = response
                /\ cleaner' = NewCleaner(response)
    /\ UNCHANGED <<k, kd, eps, labels, map, ret, centered, knn, fit, lloyd, cls, agent>>

NextCleanNoisy ==
    \/ CallCleanNoisy
    \/ CleanNextChar
    \/ CleanReturn

SpecCleanNoisy == Init /\ [][NextCleanNoisy]_vars

----------------------------------------------------------------------------
(* Claims about ResponseCleaner::clean *)

\* C18: a response made of noise text, one well-formed JSON value and noise
\* text is cleaned to exactly that value in compact form.
C18_NoiseAroundJsonIsDiscarded ==
    (op = "ResponseCleaner::clean" /\ cleaner.pc = "done") =>
        \A prefix \in NoiseTexts, suffix \in NoiseTexts :
            \A t \in NoisyTokenDocuments, style \in WsStyles :
                (x = prefix \o Render(t, style) \o suffix)
                    => ret = Ok(Render(t, "compact"))

\* JSON whitespace
JsonWhitespace == {" ", "\t", "\n", "\r"}

\* `s` from position i on without the whitespace outside its string literals
RECURSIVE StripFrom(_, _, _, _)
StripFrom(s, i, in_string, escaped) ==
    IF i > Len(s) THEN <<>>
    ELSE IF in_string
    THEN <<s[i]>> \o StripFrom(s, i + 1, ~ (s[i] = Quote /\ ~ escaped),
                               ~ escaped /\ s[i] = Backslash)
    ELSE IF s[i] \in JsonWhitespace THEN StripFrom(s, i + 1, FALSE, FALSE)
    ELSE <<s[i]>> \o StripFrom(s, i + 1, s[i] = Quote, FALSE)

WithoutOuterWhitespace(s) == StripFrom(s, 1, FALSE, FALSE)

\* C19: clean of a well-formed JSON document returns the document without
\* the whitespace outside its string literals, every other character kept in
\* place.
C19_WellFormedJsonIsKept ==
    (op = "ResponseCleaner::clean" /\ cleaner.pc = "done" /\ x \in JsonDocuments) =>
        ret = Ok(WithoutOuterWhitespace(x))

\* an indented object holding an array that holds a negative fractional
\* number has been cleaned; its key has a blank inside and ends in an escaped
\* backslash
C19_Witness ==
    /\ op = "ResponseCleaner::clean" /\ cleaner.pc = "done"
    /\ x = Render(<<LBrace, SlashString, Colon, LBracket,
                    <<"-", "1", ".", "5", "e", "+", "2">>, RBracket, RBrace>>,
                  "indented")
    /\ ret = Ok(<<"{">> \o SlashString
                \o <<":", "[", "-", "1", ".", "5", "e", "+", "2", "]", "}">>)

\* backslashes that stand directly before position i of s
RECURSIVE BackslashRun(_, _)
BackslashRun(s, i) ==
    IF i > 1 /\ s[i - 1] = Backslash THEN 1 + BackslashRun(s, i - 1) ELSE 0

\* C20: while clean is inside a string, each pass of the loop copies its
\* character to the output and leaves the container stack alone, and the
\* string ends exactly at a quote with an even number of backslashes before it.
C20_StringIsCopiedVerbatim ==
    [][(cleaner.pc = "loop" /\ cleaner.in_quotes /\ cleaner'.pc = "loop") =>
            /\ cleaner'.output = Append(cleaner.output, cleaner.response[cleaner.pos])
            /\ cleaner'.stack = cleaner.stack
            /\ cleaner'.in_quotes =
                    ~ (/\ cleaner.response[cleaner.pos] = Quote
                       /\ BackslashRun(cleaner.response, cleaner.pos) % 2 = 0)]_vars

\* the string of structural characters has been copied whole inside an array
\* of an object, and the stack still holds both containers
C20_Witness ==
    /\ op = "ResponseCleaner::clean" /\ cleaner.pc = "loop"
    /\ ~ cleaner.in_quotes
    /\ cleaner.stack = <<"Object", "Array">>
    /\ Len(cleaner.output) > Len(BusyString)
    /\ SubSeq(cleaner.output, Len(cleaner.output) - Len(BusyString) + 1,
              Len(cleaner.output)) = BusyString

----------------------------------------------------------------------------
(* Claim about the slice HdbscanClusterer::cluster hands to the elbow *)

\* C21: the k-th-neighbour distances HdbscanClusterer::cluster passes to
\* elbow_kneedle are in ascending order.
C21_ClusterSliceIsAscending ==
    (op \in {"cluster_embeddings", "HdbscanClusterer::cluster"} /\ eps.some) =>
        IsAscending(kd)

----------------------------------------------------------------------------
(* Direct calls of lloyd_iter_chunked_dense *)

\* rows of the small points matrices: 0..IterRows
IterRows == 3

\* row counts that fill one chunk, leave a rest, and fill two chunks
LargeSizes == {CHUNK_SIZE, CHUNK_SIZE + 14, 2 * CHUNK_SIZE}

\* sample_weight of the direct calls: ones, growing, or zero at odd rows
IterWeights(n) == WeightChoices(n) \cup {[i \in 1..n |-> RatOfInt((i + 1) % 2)]}

\* points matrices of n rows whose values repeat with period 3 or run in two
\* blocks
LargeMatrices(n) ==
    {Arr([i \in 1..n |-> <<RatOfInt(IF i % 3 = 0 THEN 3 ELSE (i % 3) - 1)>>]),
     Arr([i \in 1..n |-> <<RatOfInt(IF 2 * i <= n THEN 0 ELSE 3)>>])}

LloydIterCall(xm, sample_weight, centers_old, update_centers) ==
    /\ op' = "lloyd_iter_chunked_dense"
    /\ x' = xm
    /\ k' = Len(centers_old)
    /\ lloyd' = [x |-> xm, sample_weight |-> Arr(sample_weight),
                 centers_old |-> centers_old, update_centers |-> update_centers,
                 pc |-> "iter"]
    /\ ret' = IF ChunkPanics(xm, centers_old) THEN Panic("unwrap on None")
              ELSE Ok(LloydIterChunkedDense(xm, Arr(sample_weight), centers_old,
                                            update_centers))

CallLloydIterChunkedDense ==
    /\ op = "idle"
    /\ \E xm \in ColumnMatrices(KmValues, IterRows),
          centers_old \in ColumnMatrices(KmCenterValues, KmK),
          update_centers \in BOOLEAN :
        \E sample_weight \in IterWeights(Len(xm)) :
            LloydIterCall(xm, sample_weight, centers_old, update_centers)
    /\ UNCHANGED <<knn, fit>>
    /\ UNCHANGED notKMeansVars

\* the same on matrices of more rows than one chunk holds
CallLloydIterManyRows ==
    /\ op = "idle"
    /\ \E n \in LargeSizes, update_centers \in BOOLEAN :
        \E xm \in LargeMatrices(n), sample_weight \in IterWeights(n) :
            LloydIterCall(xm, sample_weight, <<<<RatOfInt(0)>>, <<RatOfInt(2)>>>>,
                          update_centers)
    /\ UNCHANGED <<knn, fit>>
    /\ UNCHANGED notKMeansVars

NextLloydIter ==
    \/ CallLloydIterChunkedDense
    \/ CallLloydIterManyRows

SpecLloydIter == Init /\ [][NextLloydIter]_vars

\* a direct call has returned
LloydIterReturned ==
    op = "lloyd_iter_chunked_dense" /\ ret.kind = "ok"

\* the weight of the points labelled c (0-based), and their weighted sum in
\* feature j
WeightOfCluster(ls, sample_weight, c) ==
    RatSum([i \in 1..Len(ls) |-> IF ls[i] = c THEN sample_weight[i] ELSE RatOfInt(0)])

WeightedSumOfCluster(xm, ls, sample_weight, c, j) ==
    RatSum([i \in 1..Len(ls) |->
        IF ls[i] = c THEN RatMul(xm[i][j], sample_weight[i]) ELSE RatOfInt(0)])

\* C22: after an iteration that updates centres, a cluster of positive
\* weight sits at the weighted mean of the points labelled with it, and a
\* cluster of zero weight sits where it was, with shift 0.
C22_CentersAreWeightedMeans ==
    (LloydIterReturned /\ lloyd.update_centers) =>
        \A c \in 1..Len(lloyd.centers_old) :
            LET w == WeightOfCluster(ret.val.labels, lloyd.sample_weight, c - 1)
            IN  /\ RatLess(RatOfInt(0), w) =>
                    \A j \in 1..Len(lloyd.centers_old[c]) :
                        RatMul(ret.val.centers_new[c][j], w) =
                            WeightedSumOfCluster(lloyd.x, ret.val.labels,
                                                 lloyd.sample_weight, c - 1, j)
                /\ w = RatOfInt(0) =>
                    /\ ret.val.centers_new[c] = lloyd.centers_old[c]
                    /\ ret.val.center_shift[c] = RatOfInt(0)

\* one centre has moved to a weighted mean that is not a plain mean, the
\* other has no weight and stays
C22_Witness ==
    /\ LloydIterReturned /\ lloyd.update_centers
    /\ lloyd.x = <<<<RatOfInt(0)>>, <<RatOfInt(1)>>, <<RatOfInt(3)>>>>
    /\ lloyd.sample_weight = <<RatOfInt(1), RatOfInt(2), RatOfInt(3)>>
    /\ lloyd.centers_old = <<<<RatOfInt(2)>>, <<RatOfInt(0)>>>>
    /\ ret.val.labels = <<1, 0, 0>>
    /\ ret.val.centers_new = <<<<Rat(11, 5)>>, <<RatOfInt(0)>>>>

\* C23: the chunk ranges hold every row index once, and the labels, weights
\* and centres of the chunked iteration are those of one pass over all rows.
C23_ChunkingChangesNothing ==
    (LloydIterReturned /\ Len(lloyd.x) > 0) =>
        LET n == Len(lloyd.x)
            whole == UpdateChunkDense(lloyd.x, lloyd.sample_weight, lloyd.centers_old,
                                      RatRowNormsSq(lloyd.centers_old),
                                      lloyd.update_centers)
        IN  /\ \A i \in 0..(n - 1) :
                Cardinality({chunk_idx \in 0..(NChunks(n) - 1) :
                    /\ ChunkRange(n, chunk_idx)[1] <= i
                    /\ i < ChunkRange(n, chunk_idx)[2]}) = 1
            /\ ret.val.labels = whole.labels
            /\ ret.val.weight_in_clusters = whole.weight
            /\ lloyd.update_centers =>
                \A c \in 1..Len(lloyd.centers_old) :
                    ret.val.centers_new[c] =
                        IF RatLess(RatOfInt(0), whole.weight[c])
                        THEN Arr([j \in 1..Len(lloyd.centers_old[c]) |->
                                RatDiv(whole.centers_new[c][j], whole.weight[c])])
                        ELSE lloyd.centers_old[c]

\* an iteration over two chunks, the second shorter than the first, has
\* returned with both clusters holding weight
C23_Witness ==
    /\ LloydIterReturned /\ lloyd.update_centers
    /\ Len(lloyd.x) = CHUNK_SIZE + 14
    /\ NChunks(Len(lloyd.x)) = 2
    /\ \A c \in 1..2 : RatLess(RatOfInt(0), ret.val.weight_in_clusters[c])

\* C26: an iteration with update_centers = false answers a nearest centre of
\* centers_old for each point, centers_old itself, weights 0 and shifts 0.
C26_LabelsOnly ==
    (LloydIterReturned /\ ~ lloyd.update_centers) =>
        /\ Len(ret.val.labels) = Len(lloyd.x)
        /\ \A i \in 1..Len(lloyd.x) :
            /\ ret.val.labels[i] \in 0..(Len(lloyd.centers_old) - 1)
            /\ \A c \in 1..Len(lloyd.centers_old) :
                RatLeq(SqDist(lloyd.x[i], lloyd.centers_old[ret.val.labels[i] + 1]),
                       SqDist(lloyd.x[i], lloyd.centers_old[c]))
        /\ ret.val.centers_new = lloyd.centers_old
        /\ \A c \in 1..Len(lloyd.centers_old) :
            /\ ret.val.weight_in_clusters[c] = RatOfInt(0)
            /\ ret.val.center_shift[c] = RatOfInt(0)

\* points were labelled with both centres and nothing else came back changed
C26_Witness ==
    /\ LloydIterReturned /\ ~ lloyd.update_centers
    /\ lloyd.centers_old = <<<<RatOfInt(0)>>, <<RatOfInt(2)>>>>
    /\ lloyd.x = <<<<RatOfInt(3)>>, <<RatOfInt(0)>>, <<RatOfInt(1)>>>>
    /\ ret.val.labels = <<1, 0, 0>>
    /\ ret.val.centers_new = lloyd.centers_old

----------------------------------------------------------------------------
\* The tool-calling loops of ai/commit_message.rs, ai/label_urls.rs and
\* ai/summary.rs.  An item of the conversation is a record; a function call of
\* a response carries its call_id, its name and whether its arguments parse.

\* the most function calls one response carries, and the most responses that
\* carry calls in one conversation
MaxCalls == 2
MaxRounds == 2

MessageItem(role) == [type |-> "Message", role |-> role]
FunctionCallItem(call) == [type |-> "FunctionCall", call_id |-> call.call_id, name |-> call.name]
FunctionCallOutputItem(call_id, status) == [type |-> "FunctionCallOutput", call_id |-> call_id, status |-> status]

\* the tools each loop matches by name
ToolsOf(loop) ==
    CASE loop = "generate_commit_message" -> {"get_file", "get_patch"}
      [] loop = "label_url_cluster" -> {"fetch_url"}
      [] loop = "generate_summary" ->
            {"fetch_url", "get_diff", "get_repo", "get_commit_messages",
             "get_browser_history", "get_shell_history"}

\* names a model may put in a call: tools of the loops and one of none
CallNames == {"get_patch", "fetch_url", "get_diff", "no_such_tool"}
CallArguments == {"valid", "invalid"}

\* tools/mod.rs: arbitrary_tool_error and unknown_tool
ArbitraryToolError(call) ==
    <<FunctionCallItem(call), FunctionCallOutputItem(call.call_id, Some("Incomplete"))>>

UnknownTool(call) == ArbitraryToolError(call)

\* tools/mod.rs: CustomTool::process; status is what the tool's call returned
Process(call, status) ==
    IF call.arguments = "invalid"
    THEN <<FunctionCallItem(call), FunctionCallOutputItem(call.call_id, Some("Incomplete"))>>
    ELSE <<FunctionCallItem(call), FunctionCallOutputItem(call.call_id, Some(status))>>

\* the arm `_ => warn!("Unknown tool call: ...")`: nothing is pushed
WarnUnknownTool(call) == <<>>

\* the two pushes of a matched arm of commit_message.rs and label_urls.rs
EchoAndOutput(call) ==
    <<FunctionCallItem(call), FunctionCallOutputItem(call.call_id, None)>>

\* one pass of `for call in function_calls` of generate_commit_message:
\* the items pushed, or the error returned
CommitMessageArm(call) ==
    IF call.name \in ToolsOf("generate_commit_message")
    THEN IF call.arguments = "invalid" THEN Err("deserialize")
         ELSE Ok(EchoAndOutput(call))
    ELSE Ok(WarnUnknownTool(call))

\* one pass of the loop of label_url_cluster; fetched is get_url's Ok or Err
LabelUrlArm(call, fetched) ==
    IF call.name \in ToolsOf("label_url_cluster")
    THEN IF call.arguments = "invalid" THEN Err("deserialize")
         ELSE IF ~fetched THEN Err("get_url")
         ELSE Ok(EchoAndOutput(call))
    ELSE Ok(WarnUnknownTool(call))

\* one pass of the loop of generate_summary
SummaryArm(call, fetched) ==
    IF call.name \in ToolsOf("generate_summary")
    THEN Ok(Process(call, IF fetched THEN "Completed" ELSE "Incomplete"))
    ELSE Ok(UnknownTool(call))

ToolArm(loop, call, fetched) ==
    CASE loop = "generate_commit_message" -> CommitMessageArm(call)
      [] loop = "label_url_cluster" -> LabelUrlArm(call, fetched)
      [] loop = "generate_summary" -> SummaryArm(call, fetched)

ToolLoops == {"generate_commit_message", "label_url_cluster", "generate_summary"}

\* the shapes of the function calls a response may carry
ResponseCalls == UNION {[1..n -> CallNames \X CallArguments] : n \in 1..MaxCalls}

\* the calls of the response of a round; the call_ids of a conversation are
\* all different
FunctionCalls(round, shape) ==
    Arr([i \in 1..Len(shape) |->
            [call_id |-> round * MaxCalls + i,
             name |-> shape[i][1],
             arguments |-> shape[i][2]]])

\* the two messages every loop starts its input_items with
InitialInputItems == <<MessageItem("user"), MessageItem("system")>>

CallToolLoop ==
    /\ op = "idle"
    /\ \E loop \in ToolLoops :
        /\ op' = loop
        /\ agent' = [pc |-> "loop",
                     input_items |-> InitialInputItems,
                     round |-> 0,
                     request |-> <<>>,
                     answered |-> <<>>,
                     response |-> <<>>,
                     function_calls |-> <<>>]
    /\ UNCHANGED <<x, k, kd, eps, labels, map, ret, centered, knn, fit, lloyd, cls, cleaner>>

\* the head of `loop`: the request is built from a clone of input_items and
\* sent; answered keeps the calls of the response before it
CreateRequest ==
    /\ op \in ToolLoops
    /\ agent.pc = "loop"
    /\ agent' = [agent EXCEPT !.pc = "await",
                              !.request = agent.input_items,
                              !.answered = agent.response,
                              !.response = <<>>]
    /\ UNCHANGED <<op, x, k, kd, eps, labels, map, ret, centered, knn, fit, lloyd, cls, cleaner>>

\* `client.responses().create(request).await?` fails
ResponseFails ==
    /\ op \in ToolLoops
    /\ agent.pc = "await"
    /\ agent' = [agent EXCEPT !.pc = "done"]
    /\ ret' = Err("create")
    /\ UNCHANGED <<op, x, k, kd, eps, labels, map, centered, knn, fit, lloyd, cls, cleaner>>

\* a response without function calls: its text is cleaned and parsed, and
\* the loop returns what the parse gives
ResponseIsFinal ==
    /\ op \in ToolLoops
    /\ agent.pc = "await"
    /\ \E parsed \in BOOLEAN :
        ret' = IF parsed THEN Ok("message") ELSE Err("deserialize")
    /\ agent' = [agent EXCEPT !.pc = "done"]
    /\ UNCHANGED <<op, x, k, kd, eps, labels, map, centered, knn, fit, lloyd, cls, cleaner>>

\* a response with function calls, collected in the order of its output
ResponseHasCalls ==
    /\ op \in ToolLoops
    /\ agent.pc = "await"
    /\ agent.round < MaxRounds
    /\ \E shape \in ResponseCalls :
        LET calls == FunctionCalls(agent.round, shape)
        IN  agent' = [agent EXCEPT !.pc = "calls",
                                   !.round = agent.round + 1,
                                   !.response = calls,
                                   !.function_calls = calls]
    /\ UNCHANGED <<op, x, k, kd, eps, labels, map, ret, centered, knn, fit, lloyd, cls, cleaner>>

\* one pass of `for call in function_calls`; after the last call the loop
\* goes back to its head
HandleToolCall ==
    /\ op \in ToolLoops
    /\ agent.pc = "calls"
    /\ agent.function_calls # <<>>
    /\ \E fetched \in BOOLEAN :
        LET call == Head(agent.function_calls)
            rest == Tail(agent.function_calls)
            arm == ToolArm(op, call, fetched)
        IN  IF arm.kind = "err"
            THEN /\ agent' = [agent EXCEPT !.pc = "done"]
                 /\ ret' = arm
            ELSE /\ agent' = [agent EXCEPT
                                !.input_items = agent.input_items \o arm.val,
                                !.function_calls = rest,
                                !.pc = IF rest = <<>> THEN "loop" ELSE "calls"]
                 /\ UNCHANGED ret
    /\ UNCHANGED <<op, x, k, kd, eps, labels, map, centered, knn, fit, lloyd, cls, cleaner>>

NextToolLoop ==
    \/ CallToolLoop
    \/ CreateRequest
    \/ ResponseFails
    \/ ResponseIsFinal
    \/ ResponseHasCalls
    \/ HandleToolCall

SpecToolLoop == Init /\ [][NextToolLoop]_vars

\* a request follows a response that carried function calls
RequestFollowsCalls == op \in ToolLoops /\ agent.pc = "await" /\ agent.answered # <<>>

\* the places of the echo of a call in the input of a request
EchoPlaces(input, call) == {i \in 1..Len(input) : input[i] = FunctionCallItem(call)}

OutputPlaces(input, call_id) == {i \in 1..Len(input) : input[i].type = "FunctionCallOutput" /\ input[i].call_id = call_id}

\* the call is echoed once, directly followed by the one output of its call_id
IsAnswered(input, call) ==
    /\ Cardinality(EchoPlaces(input, call)) = 1
    /\ \A i \in EchoPlaces(input, call) : OutputPlaces(input, call.call_id) = {i + 1}

\* the calls of one response are answered in the order they came in
AnsweredInOrder(input, calls) ==
    \A i, j \in 1..Len(calls) :
        i < j => \A p \in EchoPlaces(input, calls[i]), q \in EchoPlaces(input, calls[j]) : p < q

\* C24: whenever a response with function calls is followed by another
\* request, the input of that request holds, for every call of the response,
\* unknown tools included, the echoed call directly followed by exactly one
\* FunctionCallOutput of the same call_id, in the order of the calls.
C24_EveryCallIsAnswered ==
    RequestFollowsCalls =>
        /\ \A i \in 1..Len(agent.answered) : IsAnswered(agent.request, agent.answered[i])
        /\ AnsweredInOrder(agent.request, agent.answered)

----------------------------------------------------------------------------
\* searchsorted_weighted of knn/utils.rs called on its own.

\* the rows (and columns) of closest_dist_sq, and the values looked up
SearchRows == 2
SearchValues == {0, 1}
SearchWeights == {1, 2}
SearchRandVals == {<<0, 1>>, <<1, 2>>, <<1, 1>>, <<2, 1>>, <<3, 1>>, <<5, 1>>}

SquareMatrices(n) == [1..n -> [1..n -> {RatOfInt(v) : v \in SearchValues}]]

\* the whole of searchsorted_weighted: the two assert_eq!, the cumulative
\* sums, one binary_search_by per random value
CallSearchsortedWeighted ==
    /\ op = "idle"
    /\ \E n \in 1..SearchRows, m \in 1..SearchRows :
       \E sample_weight \in [1..n -> {RatOfInt(w) : w \in SearchWeights}],
          closest_dist_sq \in SquareMatrices(m),
          rv \in SearchRandVals :
        /\ op' = "searchsorted_weighted"
        /\ x' = closest_dist_sq
        /\ fit' = [pc |-> "searchsorted_weighted",
                   sample_weight |-> sample_weight,
                   rand_vals |-> <<rv>>]
        /\ IF ~ SearchsortedShapeOk(sample_weight, closest_dist_sq)
           THEN ret' = Panic("assertion failed: left == right")
           ELSE \E idx \in BinarySearchResults(
                            SearchsortedCumsum(sample_weight, closest_dist_sq), rv) :
                    ret' = Ok(<<idx>>)
    /\ UNCHANGED <<k, knn, lloyd>>
    /\ UNCHANGED notKMeansVars

NextSearchsorted == CallSearchsortedWeighted

SpecSearchsorted == Init /\ [][NextSearchsorted]_vars

\* np.searchsorted(cumsum, rv), left side: the smallest index whose entry is
\* at least rv, the length when there is none
LeftSearchsorted(cumsum, rv) ==
    LET hits == {p \in 1..Len(cumsum) : RatLeq(rv, cumsum[p])}
    IN  IF hits = {} THEN Len(cumsum)
        ELSE (CHOOSE p \in hits : \A q \in hits : p <= q) - 1

\* C25: searchsorted_weighted returns, for every random value, the smallest
\* index i whose cumulative sum is at least the value, also where the
\* cumulative sums hold runs of equal values.
C25_SearchsortedIsLeftSide ==
    (op = "searchsorted_weighted" /\ ret.kind = "ok") =>
        \A t \in 1..Len(fit.rand_vals) :
            ret.val[t] = LeftSearchsorted(SearchsortedCumsum(fit.sample_weight, x),
                                          fit.rand_vals[t])

----------------------------------------------------------------------------
\* the groups of a map that hold index i, each as often as it holds it
GroupsHolding(m, i) ==
    {kp \in UNION {{<<key, p>> : p \in 1..Len(m[key])} : key \in DOMAIN m} :
        m[kp[1]][kp[2]] = i}

\* C27: in the map HdbscanClusterer::cluster returns, every index whose label
\* is not negative stands exactly once, in the group keyed by its label, and
\* an index whose label is negative stands nowhere; so no item that classify
\* takes from the groups lands in more than one cluster.
C27_EveryIndexInOneGroup ==
    (op = "HdbscanClusterer::cluster" /\ ret.kind = "ok") =>
        /\ map = ret.val
        /\ Len(labels) = NRows(x)
        /\ \A i \in 0..(Len(labels) - 1) :
            IF labels[i + 1] >= 0
            THEN /\ Cardinality(GroupsHolding(map, i)) = 1
                 /\ \A kp \in GroupsHolding(map, i) : kp[1] = AsUsize(labels[i + 1])
            ELSE GroupsHolding(map, i) = {}
        /\ \A key \in DOMAIN map : \A p \in 1..Len(map[key]) :
                map[key][p] \in 0..(Len(labels) - 1)

\* a returned map with noise and two clusters, one of several indices
C27_Witness ==
    /\ op = "HdbscanClusterer::cluster"
    /\ ret.kind = "ok"
    /\ \E i \in 1..Len(labels) : labels[i] < 0
    /\ \E i, j \in 1..Len(labels) : i < j /\ labels[i] = 0 /\ labels[j] = 0
    /\ \E i \in 1..Len(labels) : labels[i] = MaxLabel

----------------------------------------------------------------------------
\* C28: with the default Uniform [0, 1) draws, k-means++ seeding on n >= 1
\* rows with 1 <= k <= n goes through without a panic, and every centre it
\* picks is a row of x with an index in 0..n-1.
C28_SeedingCompletes ==
    (/\ op = "Knn::fit"
     /\ knn.init.kind = "KMeansPlusPlus"
     /\ Len(x) >= 1
     /\ k >= 1
     /\ k <= Len(x)) =>
        /\ ret.kind # "panic"
        /\ (fit.pc = "lloyd" /\ fit.kpp.some) =>
                \A c \in 1..k : \E i \in 1..Len(fit.x) : fit.kpp.val.centers[c] = fit.x[i]

----------------------------------------------------------------------------
\* Knn::wcss(x): the within-cluster sum of squares per cluster from the
\* stored centres and labels, None when nothing is stored, when the labels
\* are not one per row or when a label names no centre
Wcss(kn, xm) ==
    IF ~ kn.cluster_centers.some \/ ~ kn.labels.some THEN None
    ELSE LET centers == kn.cluster_centers.val
             ls == kn.labels.val
             n_clusters == NRows(centers)
             n_features == NCols(centers)
             sq(idx) == RatSum([f \in 1..n_features |->
                            LET dd == RatSub(xm[idx][f], centers[ls[idx] + 1][f])
                            IN  RatMul(dd, dd)])
         IN  IF Len(ls) # NRows(xm) THEN None
             ELSE IF \E idx \in 1..Len(ls) : ls[idx] >= n_clusters THEN None
             ELSE Some(Arr([c \in 1..n_clusters |->
                        RatSum(Arr([idx \in 1..Len(ls) |->
                            IF ls[idx] + 1 = c THEN sq(idx) ELSE RatOfInt(0)]))]))

\* C29: after Knn::fit(x) succeeds the stored centres are in the coordinates
\* of x: the per-cluster values of wcss(x) add up to the stored inertia.
C29_WcssAddsUpToInertia ==
    (op = "Knn::fit" /\ fit.pc = "done" /\ ret.kind = "ok") =>
        /\ Wcss(knn, x).some
        /\ RatSum(Wcss(knn, x).val) = knn.inertia.val

====
